---- MODULE Spec2Model ----
(***************************************************************************)
(* AutoBackup (egui): the backup scheduler of src/main.rs.                 *)
(*                                                                         *)
(* The controller (AppState, the UI thread) owns the schedules, the input  *)
(* fields and the visible log.  Every launched backup is a thread that     *)
(* runs execute_backup on a clone of its schedule and talks to the         *)
(* controller only through the mpsc channel (tx/rx).                       *)
(*                                                                         *)
(* Strings that the program parses (paths, labels, the period field, the   *)
(* lines of AutoBackup.ini) are sequences of one-character strings, so     *)
(* that trimming, splitting and parsing are computed, not assumed.         *)
(* Time is in milliseconds.                                                *)
(*                                                                         *)
(* App::update is one frame: at most one handler of the UI, then tick().   *)
(*                                                                         *)
(* Specifications:                                                         *)
(*   Spec         every handler of the job table, the clock, the threads   *)
(*   SpecClock    two loaded jobs run by the periodic scan and by hand     *)
(*   SpecShift    two loaded jobs: completions that meet deletions         *)
(*   SpecShiftFair  the same under a fair scheduler                        *)
(*   SpecCopy     one loaded job copied entry by entry, edited, deleted    *)
(*   SpecExt      the same on file names with the dot in every place       *)
(*   SpecTable    every handler of the job table, threads entry by entry   *)
(*   SpecUnits    the backup threads under a fair scheduler                *)
(*   SpecForm     the form: typed, added, edited, deleted, loaded again    *)
(*   SpecSkip     the input fields: skip tokens, the source picker         *)
(*   SpecPersist  collections saved and loaded by the next start           *)
(*   SpecLoad     files with short and long records, loaded at the start   *)
(***************************************************************************)
EXTENDS Integers, Sequences, FiniteSets, TLC

VARIABLES
    schedules,       \* AppState.schedules: Seq of Schedule
    selected_index,  \* AppState.selected_index: None or a 0-based index
    inputs,          \* AppState's input fields and the two skip labels
    logs,            \* the lines the last handler appended to AppState.logs
    chan,            \* the mpsc channel: messages sent and not yet received
    last_tick,       \* AppState.last_tick
    units,           \* the backup threads that have not ended yet
    now,             \* the clock (Local::now and Instant::now), milliseconds
    advances,        \* how many times the clock has advanced
    file,            \* AutoBackup.ini
    dirs,            \* the directories that exist on the filesystem
    tree,            \* the files and directories below them
    frame,           \* where the UI thread is in App::update: "ui" or "tick"
    nextJob,         \* history: the number of jobs created so far
    nextUnit         \* history: the number of threads spawned so far

vars == <<schedules, selected_index, inputs, logs, chan, last_tick, units,
          now, advances, file, dirs, tree, frame, nextJob, nextUnit>>

-----------------------------------------------------------------------------
(* Bounds of the model *)

\* the most jobs ever created (loaded or added)
MaxJobs == 2
\* the most backup threads ever spawned, among all the handlers
MaxUnits == 1
\* the most backup threads ever spawned where only the clock, the runs by
\* hand and the threads are followed
MaxRuns == 2
\* the most clock advances
MaxAdvances == 2
\* the most per-file copy failures of one run
MaxWarnings == 1
\* the most whitespace-separated tokens a skip label grows to
MaxTokens == 3
\* the most backup threads ever spawned where completions meet deletions
MaxShiftUnits == 3
\* the most records of the file the program starts from, where loading is
\* followed
MaxRecords == 2

(* Program constants *)

MsPerSec == 1000
SecsPerHour == 3600
DefaultPeriod == 24
TickSecs == 1
MinFields == 3
I32Max == 2147483647

-----------------------------------------------------------------------------
(* Strings: sequences of one-character strings *)

\* Option: None, or Some(v)
None == << >>

Some(v) == <<v>>

EmptyStr == << >>

UpperChars == <<"A","B","C","D","E","F","G","H","I","J","K","L","M",
                "N","O","P","Q","R","S","T","U","V","W","X","Y","Z">>
LowerChars == <<"a","b","c","d","e","f","g","h","i","j","k","l","m",
                "n","o","p","q","r","s","t","u","v","w","x","y","z">>
DigitChars == <<"0","1","2","3","4","5","6","7","8","9">>

\* char::is_whitespace, on the characters of the model
is_whitespace(c) == c \in {" ", "\t"}

\* u8::to_ascii_lowercase
char_to_ascii_lowercase(c) ==
    IF \E i \in 1..26 : UpperChars[i] = c
    THEN LowerChars[CHOOSE i \in 1..26 : UpperChars[i] = c]
    ELSE c

\* str::to_ascii_lowercase
to_ascii_lowercase(s) == [i \in 1..Len(s) |-> char_to_ascii_lowercase(s[i])]

\* str::eq_ignore_ascii_case
eq_ignore_ascii_case(a, b) == to_ascii_lowercase(a) = to_ascii_lowercase(b)

\* str::trim_start
RECURSIVE trim_start(_)
trim_start(s) ==
    IF s # << >> /\ is_whitespace(Head(s)) THEN trim_start(Tail(s)) ELSE s

\* str::trim_end
RECURSIVE trim_end(_)
trim_end(s) ==
    IF s # << >> /\ is_whitespace(s[Len(s)])
    THEN trim_end(SubSeq(s, 1, Len(s) - 1))
    ELSE s

\* str::trim
trim(s) == trim_end(trim_start(s))

\* str::split(sep): the pieces between the separators, empty ones included
RECURSIVE split_from(_, _, _)
split_from(s, sep, cur) ==
    IF s = << >> THEN <<cur>>
    ELSE IF Head(s) = sep THEN <<cur>> \o split_from(Tail(s), sep, << >>)
    ELSE split_from(Tail(s), sep, Append(cur, Head(s)))

split(s, sep) == split_from(s, sep, << >>)

\* str::split_whitespace: the non-empty runs of non-whitespace characters
RECURSIVE split_ws_from(_, _)
split_ws_from(s, cur) ==
    IF s = << >> THEN (IF cur = << >> THEN << >> ELSE <<cur>>)
    ELSE IF is_whitespace(Head(s))
         THEN (IF cur = << >> THEN << >> ELSE <<cur>>) \o split_ws_from(Tail(s), << >>)
         ELSE split_ws_from(Tail(s), Append(cur, Head(s)))

split_whitespace(s) == split_ws_from(s, << >>)

\* str::trim_start_matches(prefix): the prefix removed as often as it matches
RECURSIVE trim_start_matches(_, _)
trim_start_matches(s, p) ==
    IF Len(p) > 0 /\ Len(s) >= Len(p) /\ SubSeq(s, 1, Len(p)) = p
    THEN trim_start_matches(SubSeq(s, Len(p) + 1, Len(s)), p)
    ELSE s

DigitValue(c) == (CHOOSE i \in 1..10 : DigitChars[i] = c) - 1
IsDigit(c) == \E i \in 1..10 : DigitChars[i] = c

RECURSIVE DigitsValue(_, _)
DigitsValue(s, acc) ==
    IF s = << >> THEN acc
    ELSE DigitsValue(Tail(s), IF acc > I32Max THEN acc ELSE acc * 10 + DigitValue(Head(s)))

\* str::parse::<i32>: an optional sign, then one or more digits, in range;
\* None for anything else (no trimming)
parse_i32(s) ==
    LET signed == s # << >> /\ Head(s) \in {"+", "-"}
        digits == IF signed THEN Tail(s) ELSE s
        mag    == DigitsValue(digits, 0)
    IN  IF digits = << >> \/ \E i \in 1..Len(digits) : ~IsDigit(digits[i]) THEN None
        ELSE IF signed /\ Head(s) = "-"
             THEN (IF mag > I32Max + 1 THEN None ELSE Some(0 - mag))
             ELSE (IF mag > I32Max THEN None ELSE Some(mag))

\* str::parse::<usize>: digits only (an optional +), None otherwise
parse_usize(s) ==
    LET digits == IF s # << >> /\ Head(s) = "+" THEN Tail(s) ELSE s
    IN  IF digits = << >> \/ \E i \in 1..Len(digits) : ~IsDigit(digits[i]) THEN None
        ELSE Some(DigitsValue(digits, 0))

\* str::parse::<bool>: exactly "true" or "false"
parse_bool(s) ==
    IF s = <<"t","r","u","e">> THEN Some(TRUE)
    ELSE IF s = <<"f","a","l","s","e">> THEN Some(FALSE)
    ELSE None

RECURSIVE NatToString(_)
NatToString(n) ==
    IF n < 10 THEN <<DigitChars[n + 1]>>
    ELSE Append(NatToString(n \div 10), DigitChars[(n % 10) + 1])

\* i32's and usize's Display
int_to_string(n) == IF n < 0 THEN <<"-">> \o NatToString(0 - n) ELSE NatToString(n)

\* bool's Display
bool_to_string(b) == IF b THEN <<"t","r","u","e">> ELSE <<"f","a","l","s","e">>

RECURSIVE join(_, _)
join(parts, sep) ==
    IF parts = << >> THEN << >>
    ELSE IF Len(parts) = 1 THEN parts[1]
    ELSE parts[1] \o <<sep>> \o join(Tail(parts), sep)

-----------------------------------------------------------------------------
(* The data model *)

\* struct Schedule.  The field job is history: the identity of the job the
\* record was created for; the program has no such field and never reads it.
Schedule(src, dst, period, exts, folders, zip, t, running, job) ==
    [source_dir |-> src, dest_dir |-> dst, period_hours |-> period,
     skip_file_exts_label |-> exts, skip_folders_label |-> folders,
     use_zip |-> zip, last_time |-> t, is_running |-> running, job |-> job]

\* Schedule::new: last_time is the time of creation, is_running is false
ScheduleNew(src, dst, period, exts, folders, zip, t, job) ==
    Schedule(src, dst, period, exts, folders, zip, t, FALSE, job)

\* AppMsg::Log.  The field unit is history: the thread that sent the message.
MsgLog(text, arg, unit) == [kind |-> "Log", text |-> text, arg |-> arg, unit |-> unit]

\* AppMsg::BackupFinished.  The fields unit and job are history: the thread
\* that sent the message and the job it was launched for.
MsgBackupFinished(idx, ok, unit, job) ==
    [kind |-> "BackupFinished", idx |-> idx, ok |-> ok, unit |-> unit, job |-> job]

\* AppState::log: one line appended to the visible log.  A line is its fixed
\* text and the formatted argument; the timestamp prefix is left out.  The
\* program only ever appends to AppState.logs and shows it: the variable logs
\* keeps the lines of the handler that ran last, NoLines when it logged nothing.
LogLine(text, arg) == [text |-> text, arg |-> arg]

NoLines == << >>

log(lg, text, arg) == Append(lg, LogLine(text, arg))

\* default_backup_root(): <home>/BackUp
default_backup_root == <<"B">>

\* AppState::clear_inputs (and the input fields of AppState::default)
clear_inputs ==
    [input_source_dir |-> EmptyStr,
     input_dest_dir |-> default_backup_root,
     input_period_hours |-> <<"2", "4">>,
     input_skip_file_ext |-> EmptyStr,
     input_skip_folder |-> EmptyStr,
     label_skip_files |-> EmptyStr,
     label_skip_folders |-> EmptyStr,
     input_use_zip |-> FALSE]

\* AppState::fill_inputs_from
fill_inputs_from(inp, scheds, idx) ==
    IF idx >= Len(scheds) THEN inp
    ELSE LET s == scheds[idx + 1]
         IN  [inp EXCEPT !.input_source_dir = s.source_dir,
                         !.input_dest_dir = s.dest_dir,
                         !.input_period_hours = int_to_string(s.period_hours),
                         !.label_skip_files = s.skip_file_exts_label,
                         !.label_skip_folders = s.skip_folders_label,
                         !.input_use_zip = s.use_zip]

-----------------------------------------------------------------------------
(* AutoBackup.ini *)

NoFile == [exists |-> FALSE, lines |-> << >>]

TitleLine == <<"C","o","u","n","t">>

\* a variant of RecordLine: the archive flag is not written
RecordLineFive(s) ==
    join(<<s.source_dir, s.dest_dir, int_to_string(s.period_hours),
           s.skip_file_exts_label, s.skip_folders_label>>, ",")

\* one record of save_data: the six fields joined by commas
RecordLine(s) ==
    join(<<s.source_dir, s.dest_dir, int_to_string(s.period_hours),
           s.skip_file_exts_label, s.skip_folders_label,
           bool_to_string(s.use_zip)>>, ",")

\* AppState::save_data: the whole file is rewritten
save_data(scheds) ==
    [exists |-> TRUE,
     lines  |-> <<TitleLine, int_to_string(Len(scheds))>>
                \o [i \in 1..Len(scheds) |-> RecordLine(scheds[i])]]

\* BufRead::read_line past the end of the file reads nothing
LineAt(lines, i) == IF i <= Len(lines) THEN lines[i] ELSE EmptyStr

\* Option::unwrap_or
OrDefault(v, d) == IF v = None THEN d ELSE v[1]

\* parts.get(i).cloned().unwrap_or_default(), i counted from 0
PartOr(parts, i) == IF i < Len(parts) THEN parts[i + 1] ELSE EmptyStr

\* the period of a loaded record: parsed as it stands, 24 when that fails
LoadPeriod(parts) == OrDefault(parse_i32(parts[3]), DefaultPeriod)

\* the body of load_data's loop for one record: the job it creates, if any
LoadRecord(line, t, job) ==
    LET parts == split(trim_end(line), ",")
    IN  IF Len(parts) >= MinFields
        THEN <<ScheduleNew(PartOr(parts, 0), PartOr(parts, 1), LoadPeriod(parts),
                           PartOr(parts, 3), PartOr(parts, 4),
                           IF Len(parts) > 5 THEN OrDefault(parse_bool(parts[6]), FALSE)
                                             ELSE FALSE,
                           t, job)>>
        ELSE << >>

\* a variant of LoadLoop: the first record that creates no job ends the load
RECURSIVE LoadLoopStopsAtMalformed(_, _, _, _, _)
LoadLoopStopsAtMalformed(lines, k, count, t, acc) ==
    IF k > count \/ LoadRecord(LineAt(lines, 2 + k), t, Len(acc) + 1) = << >> THEN acc
    ELSE LoadLoopStopsAtMalformed(lines, k + 1, count, t,
                                  acc \o LoadRecord(LineAt(lines, 2 + k), t, Len(acc) + 1))

RECURSIVE LoadLoop(_, _, _, _, _)
LoadLoop(lines, k, count, t, acc) ==
    IF k > count THEN acc
    ELSE LoadLoop(lines, k + 1, count, t,
                  acc \o LoadRecord(LineAt(lines, 2 + k), t, Len(acc) + 1))

\* AppState::load_data into an empty collection: the title line is skipped,
\* the count line read, then count records
load_data(f, t) ==
    IF ~f.exists THEN << >>
    ELSE LoadLoop(f.lines, 1, OrDefault(parse_usize(trim(LineAt(f.lines, 2))), 0), t, << >>)

-----------------------------------------------------------------------------
(* The controller: AppState's handlers *)

\* Rust's integer division truncates toward zero
TruncDiv(a, b) == IF a >= 0 THEN a \div b ELSE 0 - ((0 - a) \div b)

\* the period of action_add and action_edit: the trimmed field parsed,
\* kept when >= 1, otherwise 24
InputPeriod(field) ==
    LET p == parse_i32(trim(field))
    IN  IF p # None /\ p[1] >= 1 THEN p[1] ELSE DefaultPeriod

\* Path::exists
path_exists(path, ds) == path \in ds

\* the state the controller's helpers work on; spawned is history, the number
\* of threads spawned so far, which names the next one
Ctl(scheds, lg, us, n) == [schedules |-> scheds, logs |-> lg, units |-> us, spawned |-> n]

\* the thread spawn_backup starts: the clone of the schedule, the index it
\* will report, where it is in execute_backup, and the calls of copy_recursive
\* it is in (none yet)
NewUnit(uid, idx, s) ==
    [uid |-> uid, idx |-> idx, s |-> s, pc |-> "start", ok |-> FALSE, warned |-> 0,
     stack |-> << >>]

\* AppState::spawn_backup
spawn_backup(st, idx) ==
    IF idx >= Len(st.schedules) THEN st
    ELSE LET s == [st.schedules[idx + 1] EXCEPT !.is_running = TRUE]
         IN  Ctl([st.schedules EXCEPT ![idx + 1].is_running = TRUE],
                 log(st.logs, "Backup started: ", s.source_dir),
                 st.units \cup {NewUnit(st.spawned + 1, idx, s)},
                 st.spawned + 1)

\* tick's handling of BackupFinished(idx, ok): the job at idx, if any
Finished(scheds, idx, t) ==
    IF idx < Len(scheds)
    THEN [scheds EXCEPT ![idx + 1].is_running = FALSE, ![idx + 1].last_time = t]
    ELSE scheds

\* tick's handling of one received message
Receive(st, msg, t) ==
    IF msg.kind = "Log"
    THEN [st EXCEPT !.logs = log(st.logs, msg.text, msg.arg)]
    ELSE [st EXCEPT
            !.schedules = Finished(st.schedules, msg.idx, t),
            !.logs = log(st.logs, IF msg.ok THEN "Backup completed" ELSE "Backup failed",
                         EmptyStr)]

\* a variant of Drain: the newest pending message is received first
RECURSIVE DrainNewestFirst(_, _, _)
DrainNewestFirst(st, msgs, t) ==
    IF msgs = << >> THEN st
    ELSE DrainNewestFirst(Receive(st, msgs[Len(msgs)], t), SubSeq(msgs, 1, Len(msgs) - 1), t)

\* tick's first loop: every pending message is received, in order
RECURSIVE Drain(_, _, _)
Drain(st, msgs, t) ==
    IF msgs = << >> THEN st ELSE Drain(Receive(st, Head(msgs), t), Tail(msgs), t)

\* a variant of elapsed_hours: the hours rounded to the nearest, not down
elapsed_hours_rounded(s, t) ==
    TruncDiv(TruncDiv(t - s.last_time, MsPerSec) + SecsPerHour \div 2, SecsPerHour)

\* whole hours since the job's last run
elapsed_hours(s, t) == TruncDiv(TruncDiv(t - s.last_time, MsPerSec), SecsPerHour)

\* tick's decision for one job
Due(s, t) == IF s.is_running THEN FALSE ELSE elapsed_hours(s, t) >= s.period_hours

\* a variant of Scan: a due job is launched only while no job is Running
RECURSIVE ScanOneAtATime(_, _, _)
ScanOneAtATime(st, idx, t) ==
    IF idx >= Len(st.schedules) THEN st
    ELSE ScanOneAtATime(IF /\ Due(st.schedules[idx + 1], t)
                           /\ \A k \in 1..Len(st.schedules) : ~st.schedules[k].is_running
                        THEN spawn_backup(st, idx) ELSE st,
                        idx + 1, t)

\* tick's periodic scan, from index idx on
RECURSIVE Scan(_, _, _)
Scan(st, idx, t) ==
    IF idx >= Len(st.schedules) THEN st
    ELSE Scan(IF Due(st.schedules[idx + 1], t) THEN spawn_backup(st, idx) ELSE st,
              idx + 1, t)

\* the scan runs when a second has passed since the last one
ScanNow(t, lt) == t - lt >= TickSecs * MsPerSec

\* the collection after tick's first loop
Drained == Drain(Ctl(schedules, NoLines, units, nextUnit), chan, now)

\* AppState::tick, the end of every frame
Tick ==
    LET st == IF ScanNow(now, last_tick) THEN Scan(Drained, 0, now) ELSE Drained
    IN  /\ schedules' = st.schedules
        /\ logs' = st.logs
        /\ units' = st.units
        /\ nextUnit' = st.spawned
        /\ chan' = << >>
        /\ last_tick' = IF ScanNow(now, last_tick) THEN now ELSE last_tick
        /\ frame' = "ui"
        /\ UNCHANGED <<selected_index, inputs, now, advances, file, dirs, tree, nextJob>>

\* what a button's handler leaves alone
ButtonFrame ==
    /\ frame' = "tick"
    /\ UNCHANGED <<chan, last_tick, now, advances, tree>>

\* a refusal: one log line, nothing else
Reject(text) ==
    /\ logs' = log(NoLines, text, EmptyStr)
    /\ UNCHANGED <<schedules, selected_index, inputs, file, dirs, nextJob>>

\* a variant of AddRefusal: the source is not looked up on the filesystem
AddRefusalSourceUnchecked(inp, ds, created) ==
    IF trim(inp.input_source_dir) = EmptyStr THEN "Source folder is empty"
    ELSE IF trim(inp.input_dest_dir) = EmptyStr THEN "Destination folder is empty"
    ELSE IF ~path_exists(inp.input_dest_dir, ds) /\ ~created
         THEN "Failed to create destination: "
    ELSE ""

\* the checks action_add makes before it creates the job; "" when all pass.
\* created is the outcome of create_dir_all when the destination is missing
AddRefusal(inp, ds, created) ==
    IF trim(inp.input_source_dir) = EmptyStr THEN "Source folder is empty"
    ELSE IF ~path_exists(inp.input_source_dir, ds) THEN "Source folder does not exist"
    ELSE IF trim(inp.input_dest_dir) = EmptyStr THEN "Destination folder is empty"
    ELSE IF ~path_exists(inp.input_dest_dir, ds) /\ ~created
         THEN "Failed to create destination: "
    ELSE ""

\* the job action_add creates
AddedJob(inp, t, job) ==
    ScheduleNew(inp.input_source_dir, inp.input_dest_dir,
                InputPeriod(inp.input_period_hours),
                inp.label_skip_files, inp.label_skip_folders, inp.input_use_zip, t, job)

\* AppState::action_add
ActionAdd ==
    /\ frame = "ui"
    /\ \E created \in BOOLEAN :
         IF AddRefusal(inputs, dirs, created) # ""
         THEN Reject(AddRefusal(inputs, dirs, created))
         ELSE /\ schedules' = Append(schedules, AddedJob(inputs, now, nextJob + 1))
              /\ selected_index' = Some(Len(schedules') - 1)
              /\ file' = save_data(schedules')
              /\ inputs' = clear_inputs
              /\ dirs' = dirs \cup {inputs.input_dest_dir}
              /\ nextJob' = nextJob + 1
              /\ logs' = NoLines
    /\ ButtonFrame
    /\ UNCHANGED <<units, nextUnit>>

\* the checks action_edit makes; "" when all pass
EditRefusal(sel, inp, ds, created) ==
    IF sel = None THEN "Select a row to edit"
    ELSE IF trim(inp.input_source_dir) = EmptyStr \/ ~path_exists(inp.input_source_dir, ds)
         THEN "Invalid source folder"
    ELSE IF trim(inp.input_dest_dir) = EmptyStr THEN "Invalid destination folder"
    ELSE IF ~path_exists(inp.input_dest_dir, ds) /\ ~created
         THEN "Failed to create destination: "
    ELSE ""

\* a variant of EditFields: the job is built anew from the input fields, as
\* action_add builds it
EditFieldsAsNew(s, inp) ==
    ScheduleNew(inp.input_source_dir, inp.input_dest_dir, InputPeriod(inp.input_period_hours),
                inp.label_skip_files, inp.label_skip_folders, inp.input_use_zip, now, s.job)

\* the fields action_edit replaces
EditFields(s, inp) ==
    [s EXCEPT !.source_dir = inp.input_source_dir,
              !.dest_dir = inp.input_dest_dir,
              !.period_hours = InputPeriod(inp.input_period_hours),
              !.skip_file_exts_label = inp.label_skip_files,
              !.skip_folders_label = inp.label_skip_folders,
              !.use_zip = inp.input_use_zip]

\* AppState::action_edit
ActionEdit ==
    /\ frame = "ui"
    /\ \E created \in BOOLEAN :
         IF EditRefusal(selected_index, inputs, dirs, created) # ""
         THEN Reject(EditRefusal(selected_index, inputs, dirs, created))
         ELSE /\ schedules' = [schedules EXCEPT
                                 ![selected_index[1] + 1] = EditFields(@, inputs)]
              /\ file' = save_data(schedules')
              /\ inputs' = clear_inputs
              /\ dirs' = dirs \cup {inputs.input_dest_dir}
              /\ logs' = NoLines
              /\ UNCHANGED <<selected_index, nextJob>>
    /\ ButtonFrame
    /\ UNCHANGED <<units, nextUnit>>

\* Vec::remove
Remove(seq, idx) == SubSeq(seq, 1, idx) \o SubSeq(seq, idx + 2, Len(seq))

\* a variant of ActionDelete: the selection stays where it was
ActionDeleteKeepsSelection ==
    /\ frame = "ui"
    /\ IF selected_index = None THEN Reject("Select a row to delete")
       ELSE IF selected_index[1] < Len(schedules)
       THEN /\ schedules' = Remove(schedules, selected_index[1])
            /\ file' = save_data(schedules')
            /\ logs' = NoLines
            /\ UNCHANGED <<selected_index, inputs, dirs, nextJob>>
       ELSE /\ logs' = NoLines
            /\ UNCHANGED <<schedules, selected_index, inputs, file, dirs, nextJob>>
    /\ ButtonFrame
    /\ UNCHANGED <<units, nextUnit>>

\* AppState::action_delete
ActionDelete ==
    /\ frame = "ui"
    /\ IF selected_index = None THEN Reject("Select a row to delete")
       ELSE IF selected_index[1] < Len(schedules)
       THEN /\ schedules' = Remove(schedules, selected_index[1])
            /\ selected_index' = None
            /\ file' = save_data(schedules')
            /\ logs' = NoLines
            /\ UNCHANGED <<inputs, dirs, nextJob>>
       ELSE /\ logs' = NoLines
            /\ UNCHANGED <<schedules, selected_index, inputs, file, dirs, nextJob>>
    /\ ButtonFrame
    /\ UNCHANGED <<units, nextUnit>>

\* a variant of RunRefusal: the running flag is not looked at
RunRefusalUnchecked(sel, scheds) ==
    IF sel = None THEN "Select a row to run"
    ELSE IF sel[1] >= Len(scheds) THEN "-"
    ELSE ""

\* why action_run_now launches nothing; "" when it launches
RunRefusal(sel, scheds) ==
    IF sel = None THEN "Select a row to run"
    ELSE IF sel[1] >= Len(scheds) THEN "-"
    ELSE IF scheds[sel[1] + 1].is_running THEN "Backup already running"
    ELSE ""

\* AppState::action_run_now
ActionRunNow ==
    /\ frame = "ui"
    /\ IF RunRefusal(selected_index, schedules) = ""
       THEN LET st == spawn_backup(Ctl(schedules, NoLines, units, nextUnit),
                                   selected_index[1])
            IN  /\ schedules' = st.schedules
                /\ logs' = st.logs
                /\ units' = st.units
                /\ nextUnit' = st.spawned
       ELSE /\ logs' = IF RunRefusal(selected_index, schedules) = "-" THEN NoLines
                       ELSE log(NoLines, RunRefusal(selected_index, schedules), EmptyStr)
            /\ UNCHANGED <<schedules, units, nextUnit>>
    /\ ButtonFrame
    /\ UNCHANGED <<selected_index, inputs, file, dirs, nextJob>>

\* ui_table: a click on row idx selects it and fills the input fields
ClickRow(idx) ==
    /\ frame = "ui"
    /\ idx < Len(schedules)
    /\ selected_index' = Some(idx)
    /\ inputs' = fill_inputs_from(inputs, schedules, idx)
    /\ logs' = NoLines
    /\ ButtonFrame
    /\ UNCHANGED <<schedules, units, file, dirs, nextJob, nextUnit>>

\* ui_top: the user types into the source, destination and period fields and
\* sets the zip checkbox
TypeInputs(d) ==
    /\ frame = "ui"
    /\ inputs' = [inputs EXCEPT !.input_source_dir = d.source,
                                !.input_dest_dir = d.dest,
                                !.input_period_hours = d.period,
                                !.input_use_zip = d.zip]
    /\ logs' = NoLines
    /\ ButtonFrame
    /\ UNCHANGED <<schedules, selected_index, units, file, dirs, nextJob, nextUnit>>

-----------------------------------------------------------------------------
(* The backup threads: execute_backup on the cloned schedule *)

Send(msg) == chan' = Append(chan, msg)

Step(u, pc) == units' = (units \ {u}) \cup {[u EXCEPT !.pc = pc]}

UnitFrame == UNCHANGED <<schedules, selected_index, inputs, logs, last_tick, now, advances,
                         file, tree, frame, nextJob, nextUnit>>

\* execute_backup up to its first message when the source does not exist
ExecSourceMissing(u) ==
    /\ u.pc = "start"
    /\ ~path_exists(u.s.source_dir, dirs)
    /\ Send(MsgLog("Source does not exist: ", u.s.source_dir, u.uid))
    /\ Step(u, "finish")
    /\ UNCHANGED dirs
    /\ UnitFrame

\* execute_backup up to its first message when the destination does not
\* exist and create_dir_all fails
ExecDestFailed(u) ==
    /\ u.pc = "start"
    /\ path_exists(u.s.source_dir, dirs)
    /\ ~path_exists(u.s.dest_dir, dirs)
    /\ Send(MsgLog("Failed to create destination: ", EmptyStr, u.uid))
    /\ Step(u, "finish")
    /\ UNCHANGED dirs
    /\ UnitFrame

\* execute_backup up to "<source> backup started": the source exists, the
\* destination exists or is created
ExecLogStarted(u) ==
    /\ u.pc = "start"
    /\ path_exists(u.s.source_dir, dirs)
    /\ dirs' = dirs \cup {u.s.dest_dir}
    /\ Send(MsgLog(" backup started", u.s.source_dir, u.uid))
    /\ Step(u, "copy")
    /\ UnitFrame

\* copy_recursive: one file cannot be copied; a warning, the copy goes on
ExecCopyWarning(u) ==
    /\ u.pc = "copy"
    /\ u.warned < MaxWarnings
    /\ Send(MsgLog("Failed to copy ", u.s.source_dir, u.uid))
    /\ units' = (units \ {u}) \cup {[u EXCEPT !.warned = @ + 1]}
    /\ UNCHANGED dirs
    /\ UnitFrame

\* a variant of ExecCopyFailed: the thread ends there, reporting nothing more
ExecCopyFailedSilently(u) ==
    /\ u.pc = "copy"
    /\ Send(MsgLog("Copy failed: ", EmptyStr, u.uid))
    /\ units' = units \ {u}
    /\ UNCHANGED dirs
    /\ UnitFrame

\* copy_recursive returns Err (a directory cannot be created or listed)
ExecCopyFailed(u) ==
    /\ u.pc = "copy"
    /\ Send(MsgLog("Copy failed: ", EmptyStr, u.uid))
    /\ Step(u, "finish")
    /\ UNCHANGED dirs
    /\ UnitFrame

\* copy_recursive returns Ok; what it copied is not followed
ExecCopied(u) ==
    /\ u.pc = "copy"
    /\ Step(u, "copied")
    /\ UNCHANGED <<chan, dirs>>
    /\ UnitFrame

\* the three outcomes of running 7z, each one log line
ZipOutcomes == {"Zipped to ", "7z exited with status ", "Failed to run 7z: "}

\* a variant of ExecZip: an archiver that fails ends the run as failed
ExecZipFailureFatal(u, outcome) ==
    /\ u.pc = "copied"
    /\ u.s.use_zip
    /\ Send(MsgLog(outcome, u.s.dest_dir, u.uid))
    /\ Step(u, IF outcome = "Zipped to " THEN "zipped" ELSE "finish")
    /\ UNCHANGED dirs
    /\ UnitFrame

\* copy_recursive returns Ok and use_zip is set: the archiver runs, and
\* whatever its outcome the run goes on
ExecZip(u, outcome) ==
    /\ u.pc = "copied"
    /\ u.s.use_zip
    /\ Send(MsgLog(outcome, u.s.dest_dir, u.uid))
    /\ Step(u, "zipped")
    /\ UNCHANGED dirs
    /\ UnitFrame

\* "<source> backup completed", after the archiver or, when use_zip is not
\* set, after copy_recursive returned Ok; execute_backup returns true
ExecLogCompleted(u) ==
    /\ \/ u.pc = "zipped"
       \/ u.pc = "copied" /\ ~u.s.use_zip
    /\ Send(MsgLog(" backup completed", u.s.source_dir, u.uid))
    /\ units' = (units \ {u}) \cup {[u EXCEPT !.pc = "finish", !.ok = TRUE]}
    /\ UNCHANGED dirs
    /\ UnitFrame

\* a variant of ExecFinish: the thread itself marks the job at its index Idle
\* before it reports
ExecFinishMarksIdle(u) ==
    /\ u.pc = "finish"
    /\ Send(MsgBackupFinished(u.idx, u.ok, u.uid, u.s.job))
    /\ units' = units \ {u}
    /\ schedules' = Finished(schedules, u.idx, now)
    /\ UNCHANGED <<dirs, selected_index, inputs, logs, last_tick, now, advances,
                   file, tree, frame, nextJob, nextUnit>>

\* the thread's last statement: BackupFinished(idx, ok), then it ends
ExecFinish(u) ==
    /\ u.pc = "finish"
    /\ Send(MsgBackupFinished(u.idx, u.ok, u.uid, u.s.job))
    /\ units' = units \ {u}
    /\ UNCHANGED dirs
    /\ UnitFrame

-----------------------------------------------------------------------------
(* The clock *)

\* the steps of the clock: half a second, and an hour less half a second
Deltas == {MsPerSec \div 2, SecsPerHour * MsPerSec - MsPerSec \div 2}

Advance(d) ==
    /\ now' = now + d
    /\ advances' = advances + 1
    /\ UNCHANGED <<schedules, selected_index, inputs, logs, chan, last_tick, units, file,
                   dirs, tree, frame, nextJob, nextUnit>>

-----------------------------------------------------------------------------
(* The skip lists *)

\* label.split_whitespace().any(|e| e.eq_ignore_ascii_case(token))
HasToken(label, token) ==
    \E i \in 1..Len(split_whitespace(label)) :
        eq_ignore_ascii_case(split_whitespace(label)[i], token)

\* the label with the token appended, after one space unless it was empty
AppendToken(label, token) ==
    IF label = EmptyStr THEN token ELSE label \o <<" ">> \o token

\* what a handler that works on the input fields leaves alone
SkipFrame ==
    /\ ButtonFrame
    /\ UNCHANGED <<schedules, selected_index, units, file, dirs, nextJob, nextUnit>>

\* AppState::add_skip_file_ext
AddSkipFileExt ==
    /\ frame = "ui"
    /\ LET ext   == trim(inputs.input_skip_file_ext)
           token == <<"*", ".">> \o ext
       IN  IF ext = EmptyStr
           THEN logs' = NoLines /\ UNCHANGED inputs
           ELSE IF HasToken(inputs.label_skip_files, token)
           THEN logs' = log(NoLines, "Duplicate extension", EmptyStr) /\ UNCHANGED inputs
           ELSE /\ inputs' = [inputs EXCEPT !.label_skip_files = AppendToken(@, token),
                                            !.input_skip_file_ext = EmptyStr]
                /\ logs' = NoLines
    /\ SkipFrame

\* AppState::add_skip_folder
AddSkipFolder ==
    /\ frame = "ui"
    /\ LET name == trim(inputs.input_skip_folder)
       IN  IF name = EmptyStr
           THEN logs' = NoLines /\ UNCHANGED inputs
           ELSE IF HasToken(inputs.label_skip_folders, name)
           THEN logs' = log(NoLines, "Duplicate folder", EmptyStr) /\ UNCHANGED inputs
           ELSE /\ inputs' = [inputs EXCEPT !.label_skip_folders = AppendToken(@, name),
                                            !.input_skip_folder = EmptyStr]
                /\ logs' = NoLines
    /\ SkipFrame

\* ui_top: the Clear button of the skip extensions
ClearSkipFiles ==
    /\ frame = "ui"
    /\ inputs' = [inputs EXCEPT !.label_skip_files = EmptyStr]
    /\ logs' = NoLines
    /\ SkipFrame

\* ui_top: the Clear button of the skip folder names
ClearSkipFolders ==
    /\ frame = "ui"
    /\ inputs' = [inputs EXCEPT !.label_skip_folders = EmptyStr]
    /\ logs' = NoLines
    /\ SkipFrame

\* ui_top: the user types into the two skip fields
TypeSkip(d) ==
    /\ frame = "ui"
    /\ inputs' = [inputs EXCEPT !.input_skip_file_ext = d.ext,
                                !.input_skip_folder = d.folder]
    /\ logs' = NoLines
    /\ SkipFrame

NonEmpty(s) == s # EmptyStr

\* one token of parse_skip_tokens: trimmed, leading "*." and "." removed,
\* lowercased
SkipToken(tok) ==
    to_ascii_lowercase(trim_start_matches(trim_start_matches(tok, <<"*", ".">>), <<".">>))

\* parse_skip_tokens: "*.log *.tmp" -> ["log", "tmp"]
parse_skip_tokens(label) ==
    LET toks == SelectSeq([i \in 1..Len(split_whitespace(label)) |->
                              trim(split_whitespace(label)[i])], NonEmpty)
    IN  [i \in 1..Len(toks) |-> SkipToken(toks[i])]

-----------------------------------------------------------------------------
(* The folder pickers *)

\* Path::file_name: the last component of the path, None when there is none
file_name(path) ==
    LET parts == split(path, "/")
    IN  IF parts[Len(parts)] = EmptyStr THEN None ELSE Some(parts[Len(parts)])

\* default_dest_for_source: <home>/BackUp/<leaf of the source>
default_dest_for_source(source) ==
    default_backup_root \o <<"/">> \o OrDefault(file_name(source), <<"b","a","c","k","u","p">>)

\* ui_top: a folder is picked as the source; an empty or default destination
\* follows it
PickSource(path) ==
    /\ frame = "ui"
    /\ inputs' = [inputs EXCEPT
                    !.input_source_dir = path,
                    !.input_dest_dir =
                        IF path # EmptyStr /\ (@ = EmptyStr \/ @ = default_backup_root)
                        THEN default_dest_for_source(path) ELSE @]
    /\ logs' = NoLines
    /\ SkipFrame

\* ui_top: a folder is picked as the destination; the source itself is refused
PickDest(path) ==
    /\ frame = "ui"
    /\ IF inputs.input_source_dir = path
       THEN logs' = log(NoLines, "Destination cannot equal source", EmptyStr) /\ UNCHANGED inputs
       ELSE inputs' = [inputs EXCEPT !.input_dest_dir = path] /\ logs' = NoLines
    /\ SkipFrame

-----------------------------------------------------------------------------
(* The copy engine: execute_backup's call of copy_recursive, entry by entry *)

\* a file or directory below a directory of dirs.  Its path is the names from
\* that directory down; its kind is "dir", "file" or "other" (neither, such as
\* a broken link); deny is set where the filesystem refuses to list it (a
\* directory) or to read it (a file)
Entry(path, kind, deny) == [path |-> path, kind |-> kind, deny |-> deny]

\* Path::display: the names joined by the separator
display(path) == join(path, "/")

\* Path::exists, below the directories of dirs too
entry_exists(path, ds, tr) ==
    IF Len(path) = 1 THEN path_exists(path[1], ds) ELSE \E e \in tr : e.path = path

\* Path::is_dir
is_dir(path, ds, tr) ==
    IF Len(path) = 1 THEN path_exists(path[1], ds)
    ELSE \E e \in tr : e.path = path /\ e.kind = "dir"

\* Path::is_file
is_file(path, tr) == \E e \in tr : e.path = path /\ e.kind = "file"

\* the filesystem refuses to list or read the entry
Denied(path, tr) == \E e \in tr : e.path = path /\ e.deny

\* fs::read_dir: the names of the entries of the directory
read_dir(path, tr) ==
    {e.path[Len(e.path)] :
        e \in {x \in tr : Len(x.path) = Len(path) + 1 /\ SubSeq(x.path, 1, Len(path)) = path}}

\* a variant of extension: a dot that begins the name counts like any other
extension_from_any_dot(name) ==
    LET dots == {i \in 1..Len(name) : name[i] = "."}
        last == CHOOSE i \in dots : \A j \in dots : j <= i
    IN  IF dots = {} THEN None ELSE Some(SubSeq(name, last + 1, Len(name)))

\* Path::extension: the part of the name after its last dot; None when the
\* name has no dot, or only a leading one
extension(name) ==
    LET dots == {i \in 1..Len(name) : name[i] = "."}
        last == CHOOSE i \in dots : \A j \in dots : j <= i
    IN  IF dots = {} \/ name = <<".", ".">> THEN None
        ELSE IF last = 1 THEN None
        ELSE Some(SubSeq(name, last + 1, Len(name)))

\* execute_backup's skip_folders: the label's tokens, lowercased
skip_folder_tokens(label) ==
    [i \in 1..Len(split_whitespace(label)) |-> to_ascii_lowercase(split_whitespace(label)[i])]

\* a variant of SkipsFolder: the name is compared as it is spelled
SkipsFolderCaseSensitive(u, name) ==
    LET skip_folders == skip_folder_tokens(u.s.skip_folders_label)
    IN  \E i \in 1..Len(skip_folders) : skip_folders[i] = name

\* a variant of SkipsFile: the extension is compared as it is spelled
SkipsFileCaseSensitive(u, name) ==
    LET skip_exts == parse_skip_tokens(u.s.skip_file_exts_label)
        ext       == OrDefault(extension(name), EmptyStr)
    IN  ext # EmptyStr /\ \E i \in 1..Len(skip_exts) : skip_exts[i] = ext

\* a variant of CopyFails: fs::copy reports success whatever happened
CopyNeverFails(path, dest_path, ds, tr) == FALSE

\* a variant of Snapshot: the thread reads the job at its index as it is now
SnapshotLive(u) == IF u.idx < Len(schedules) THEN schedules[u.idx + 1] ELSE u.s

\* the schedule execute_backup works on: the clone spawn_backup made
Snapshot(u) == u.s

\* copy_recursive's folder skip check
SkipsFolder(u, name) ==
    LET skip_folders == skip_folder_tokens(Snapshot(u).skip_folders_label)
    IN  \E i \in 1..Len(skip_folders) : eq_ignore_ascii_case(skip_folders[i], name)

\* copy_recursive's extension skip check
SkipsFile(u, name) ==
    LET skip_exts == parse_skip_tokens(Snapshot(u).skip_file_exts_label)
        ext       == to_ascii_lowercase(OrDefault(extension(name), EmptyStr))
    IN  ext # EmptyStr /\ \E i \in 1..Len(skip_exts) : skip_exts[i] = ext

\* fs::copy fails: the file cannot be read, or a directory is in its place
CopyFails(path, dest_path, ds, tr) == Denied(path, tr) \/ is_dir(dest_path, ds, tr)

\* fs::copy: the file is at dest_path, whatever was there
Copied(path, tr) == {e \in tr : e.path # path} \cup {Entry(path, "file", FALSE)}

\* one call of copy_recursive(source, dest): opened once the destination is
\* made and the source listed, todo the entries the loop has not reached
Call(source, dest) == [src |-> source, dst |-> dest, opened |-> FALSE, todo |-> {}]

\* the innermost call of copy_recursive the thread is in
Top(u) == u.stack[Len(u.stack)]

\* the entries that call's loop has not reached
Todo(u) == IF u.stack = << >> THEN {} ELSE Top(u).todo

\* the thread with its innermost call replaced
WithTop(u, call) == [u EXCEPT !.stack[Len(u.stack)] = call]

CopyFrame == UNCHANGED <<schedules, selected_index, inputs, logs, last_tick, now, advances,
                         file, frame, nextJob, nextUnit>>

\* execute_backup calls copy_recursive(source, dest)
CopyBegin(u) ==
    /\ u.pc = "copy"
    /\ units' = (units \ {u}) \cup
                    {[u EXCEPT !.pc = "walk",
                               !.stack = <<Call(<<Snapshot(u).source_dir>>,
                                                <<Snapshot(u).dest_dir>>)>>]}
    /\ UNCHANGED <<chan, dirs, tree>>
    /\ CopyFrame

\* a variant of CopyErr: the error ends the call it happened in, and the loop
\* of the directory above goes on
CopyErrLeavesDirectory(u) ==
    /\ Send(MsgLog("Copy failed: ", EmptyStr, u.uid))
    /\ units' = (units \ {u}) \cup
                    {IF Len(u.stack) = 1 THEN [u EXCEPT !.pc = "finish", !.stack = << >>]
                     ELSE [u EXCEPT !.stack = SubSeq(u.stack, 1, Len(u.stack) - 1)]}

\* an error leaves every call of copy_recursive through `?`; execute_backup
\* logs it and returns false
CopyErr(u) ==
    /\ Send(MsgLog("Copy failed: ", EmptyStr, u.uid))
    /\ units' = (units \ {u}) \cup {[u EXCEPT !.pc = "finish", !.stack = << >>]}

\* the head of copy_recursive: create_dir_all(dest)?, then read_dir(source)?.
\* created is the outcome of create_dir_all where nothing is at dest yet
CopyEnter(u, created) ==
    /\ u.pc = "walk"
    /\ ~Top(u).opened
    /\ LET call   == Top(u)
           made   == \/ is_dir(call.dst, dirs, tree)
                     \/ ~entry_exists(call.dst, dirs, tree) /\ created
           listed == is_dir(call.src, dirs, tree) /\ ~Denied(call.src, tree)
       IN  /\ dirs' = IF made /\ Len(call.dst) = 1 THEN dirs \cup {call.dst[1]} ELSE dirs
           /\ tree' = IF made /\ Len(call.dst) > 1 /\ ~is_dir(call.dst, dirs, tree)
                      THEN tree \cup {Entry(call.dst, "dir", FALSE)} ELSE tree
           /\ IF made /\ listed
              THEN /\ units' = (units \ {u}) \cup
                                  {WithTop(u, [call EXCEPT !.opened = TRUE,
                                                           !.todo = read_dir(call.src, tree)])}
                   /\ UNCHANGED chan
              ELSE CopyErr(u)
    /\ CopyFrame

\* one turn of copy_recursive's loop, on the entry called name
CopyEntry(u, name) ==
    /\ u.pc = "walk"
    /\ Top(u).opened
    /\ name \in Top(u).todo
    /\ LET call      == Top(u)
           path      == Append(call.src, name)
           dest_path == Append(call.dst, name)
           rest      == [call EXCEPT !.todo = @ \ {name}]
           continue  == units' = (units \ {u}) \cup {WithTop(u, rest)}
       IN  IF is_dir(path, dirs, tree)
           THEN /\ IF SkipsFolder(u, name) THEN continue
                   ELSE units' = (units \ {u}) \cup
                                    {[u EXCEPT !.stack = Append(WithTop(u, rest).stack,
                                                                Call(path, dest_path))]}
                /\ UNCHANGED <<chan, tree>>
           ELSE IF is_file(path, tree)
           THEN IF SkipsFile(u, name) THEN continue /\ UNCHANGED <<chan, tree>>
                ELSE IF CopyFails(path, dest_path, dirs, tree)
                THEN /\ Send(MsgLog("Failed to copy ", display(path), u.uid))
                     /\ units' = (units \ {u}) \cup {[WithTop(u, rest) EXCEPT !.warned = @ + 1]}
                     /\ UNCHANGED tree
                ELSE /\ tree' = Copied(dest_path, tree)
                     /\ continue
                     /\ UNCHANGED chan
           ELSE continue /\ UNCHANGED <<chan, tree>>
    /\ UNCHANGED dirs
    /\ CopyFrame

\* copy_recursive's loop has ended: Ok(()) to the caller, which is the loop
\* of the directory above or, from the outermost call, execute_backup
CopyLeave(u) ==
    /\ u.pc = "walk"
    /\ Top(u).opened
    /\ Top(u).todo = {}
    /\ units' = (units \ {u}) \cup
                    {IF Len(u.stack) = 1 THEN [u EXCEPT !.pc = "copied", !.stack = << >>]
                     ELSE [u EXCEPT !.stack = SubSeq(u.stack, 1, Len(u.stack) - 1)]}
    /\ UNCHANGED <<chan, dirs, tree>>
    /\ CopyFrame

-----------------------------------------------------------------------------
(* Start of the program *)

\* what load_data logs
LoadLog(f, t) ==
    IF f.exists
    THEN <<LogLine("Loaded  schedule(s)", int_to_string(Len(load_data(f, t))))>>
    ELSE NoLines

\* AppState::default: empty collection, cleared inputs, then load_data; the
\* filesystem holds the directories ds and below them the entries tr
InitTree(f, ds, tr) ==
    /\ now = 0
    /\ advances = 0
    /\ file = f
    /\ dirs = ds
    /\ tree = tr
    /\ schedules = load_data(f, 0)
    /\ selected_index = None
    /\ inputs = clear_inputs
    /\ logs = LoadLog(f, 0)
    /\ chan = << >>
    /\ last_tick = 0
    /\ units = {}
    /\ frame = "ui"
    /\ nextJob = Len(load_data(f, 0))
    /\ nextUnit = 0

\* AppState::default where the directories ds are empty
InitWith(f, ds) == InitTree(f, ds, {})

\* the program is closed and started again: AppState::default on the file as
\* it is; the threads of the old process end with it
Restart ==
    /\ frame = "ui"
    /\ schedules' = load_data(file, now)
    /\ selected_index' = None
    /\ inputs' = clear_inputs
    /\ logs' = LoadLog(file, now)
    /\ chan' = << >>
    /\ last_tick' = now
    /\ units' = {}
    /\ nextJob' = Len(load_data(file, now))
    /\ UNCHANGED <<now, advances, file, dirs, tree, frame, nextUnit>>

-----------------------------------------------------------------------------
(* The filesystem and the persisted files the specifications start from *)

\* directories: s, d and "c," exist; m and x do not
DirS == <<"s">>
DirD == <<"d">>
DirC == <<"c", ",">>
DirM == <<"m">>
DirX == <<"x">>

\* the file with the given records
FileOf(records) ==
    [exists |-> TRUE, lines |-> <<TitleLine, int_to_string(Len(records))>> \o records]

\* s,x,1,,,true: the destination does not exist, the archiver is on
RecDestMissing == <<"s", ",", "x", ",", "1", ",", ",", ",", "t", "r", "u", "e">>

\* m,d,1: the source does not exist
RecSourceMissing == <<"m", ",", "d", ",", "1">>

\* s,d,0: a period of zero hours
RecZeroPeriod == <<"s", ",", "d", ",", "0">>

FileDestMissing == FileOf(<<RecDestMissing>>)
FileSourceMissing == FileOf(<<RecSourceMissing>>)
FileTwoJobs == FileOf(<<RecDestMissing, RecSourceMissing>>)
FileZeroPeriod == FileOf(<<RecZeroPeriod>>)

\* the behaviours explored: at most jobs jobs created, threads threads
\* spawned and MaxAdvances steps of the clock
Within(jobs, threads) ==
    /\ nextJob' <= jobs
    /\ nextUnit' <= threads
    /\ advances' <= MaxAdvances

\* the steps of one backup thread
UnitSteps(u) ==
    \/ ExecSourceMissing(u)
    \/ ExecDestFailed(u)
    \/ ExecLogStarted(u)
    \/ ExecCopyWarning(u)
    \/ ExecCopyFailed(u)
    \/ ExecCopied(u)
    \/ \E o \in ZipOutcomes : ExecZip(u, o)
    \/ ExecLogCompleted(u)
    \/ ExecFinish(u)

UnitNext == \E u \in units : UnitSteps(u)

-----------------------------------------------------------------------------
(* The scheduler: every handler of the job table, the clock, the threads *)

Files == {NoFile, FileDestMissing, FileSourceMissing}

\* what the user types: source s, destination d, every hour
Drafts == [source : {DirS}, dest : {DirD}, period : {<<"1">>}, zip : {FALSE}]

Init == \E f \in Files : InitWith(f, {DirS, DirD})

Next ==
    \/ Tick /\ Within(MaxJobs, MaxUnits)
    \/ ActionAdd /\ Within(MaxJobs, MaxUnits)
    \/ ActionEdit
    \/ ActionDelete
    \/ ActionRunNow /\ Within(MaxJobs, MaxUnits)
    \/ \E idx \in 0..(MaxJobs - 1) : ClickRow(idx)
    \/ \E d \in Drafts : TypeInputs(d)
    \/ UnitNext
    \/ \E d \in Deltas : Advance(d) /\ Within(MaxJobs, MaxUnits)

Spec == Init /\ [][Next]_vars

-----------------------------------------------------------------------------
(* Completions that meet deletions: two loaded jobs, rows selected, deleted *)
(* and run by hand                                                          *)

InitShift == InitWith(FileTwoJobs, {DirS, DirD})

NextShift ==
    \/ Tick /\ Within(MaxJobs, MaxShiftUnits)
    \/ ActionDelete
    \/ ActionRunNow /\ Within(MaxJobs, MaxShiftUnits)
    \/ \E idx \in 0..(MaxJobs - 1) : ClickRow(idx)
    \/ UnitNext

SpecShift == InitShift /\ [][NextShift]_vars

\* the same under a fair scheduler: the UI keeps calling tick(), and every
\* thread that can take a step eventually takes one
NextShiftFair ==
    \/ Tick /\ Within(MaxJobs, MaxUnits)
    \/ ActionDelete
    \/ ActionRunNow /\ Within(MaxJobs, MaxUnits)
    \/ \E idx \in 0..(MaxJobs - 1) : ClickRow(idx)
    \/ UnitNext

SpecShiftFair ==
    /\ InitShift
    /\ [][NextShiftFair]_vars
    /\ WF_vars(Tick /\ Within(MaxJobs, MaxUnits))
    /\ \A id \in 1..MaxUnits : WF_vars(\E u \in units : u.uid = id /\ UnitSteps(u))

-----------------------------------------------------------------------------
(* The clock: two loaded jobs, run by the periodic scan and by hand *)

InitClock == InitWith(FileTwoJobs, {DirS, DirD})

NextClock ==
    \/ Tick /\ Within(MaxJobs, MaxRuns)
    \/ ActionRunNow /\ Within(MaxJobs, MaxRuns)
    \/ \E idx \in 0..(MaxJobs - 1) : ClickRow(idx)
    \/ UnitNext
    \/ \E d \in Deltas : Advance(d) /\ Within(MaxJobs, MaxRuns)

SpecClock == InitClock /\ [][NextClock]_vars

-----------------------------------------------------------------------------
(* The backup threads under a fair scheduler: every thread that can take a *)
(* step eventually takes one                                                *)

FilePlain == FileOf(<<<<"s", ",", "d", ",", "1">>>>)

UnitFiles == {FileDestMissing, FileSourceMissing, FilePlain}

InitUnits == \E f \in UnitFiles : InitWith(f, {DirS, DirD})

NextUnits ==
    \/ Tick /\ Within(MaxJobs, MaxRuns)
    \/ ActionRunNow /\ Within(MaxJobs, MaxRuns)
    \/ \E idx \in 0..(MaxJobs - 1) : ClickRow(idx)
    \/ UnitNext

\* the steps of the thread with the given id
UnitRun(id) == \E u \in units : u.uid = id /\ UnitSteps(u)

SpecUnits ==
    InitUnits /\ [][NextUnits]_vars /\ \A id \in 1..MaxRuns : WF_vars(UnitRun(id))

-----------------------------------------------------------------------------
(* The form: what is typed, added, edited, deleted, saved and loaded again *)

FormFiles == {NoFile, FileZeroPeriod}

FormDrafts ==
    [source : {EmptyStr, <<" ">>, DirS, DirM}, dest : {EmptyStr, DirD, DirS, DirX},
     period : {<<"1">>, <<"0">>, <<"x">>}, zip : {FALSE}]

InitForm == \E f \in FormFiles : InitWith(f, {DirS, DirD})

NextForm ==
    \/ Tick
    \/ ActionAdd /\ Within(MaxJobs, 0)
    \/ ActionEdit
    \/ ActionDelete
    \/ \E idx \in 0..(MaxJobs - 1) : ClickRow(idx)
    \/ \E d \in FormDrafts : TypeInputs(d)
    \/ \E p \in {DirS, DirD} : PickDest(p)
    \/ Restart

SpecForm == InitForm /\ [][NextForm]_vars

-----------------------------------------------------------------------------
(* The input fields: skip tokens typed, added and cleared, a source picked *)

\* what the user types into a skip field
SkipTexts == {<<"a">>, <<"A">>, <<" ", "b", " ">>, <<"a", " ", "b">>}

SkipDrafts == [ext : SkipTexts, folder : SkipTexts]

InitSkip == InitWith(NoFile, {DirS, DirD})

\* the skip labels explored hold at most MaxTokens tokens each
TokensWithin ==
    /\ Len(split_whitespace(inputs'.label_skip_files)) <= MaxTokens
    /\ Len(split_whitespace(inputs'.label_skip_folders)) <= MaxTokens

NextSkip ==
    \/ Tick
    \/ AddSkipFileExt /\ TokensWithin
    \/ AddSkipFolder /\ TokensWithin
    \/ ClearSkipFiles
    \/ ClearSkipFolders
    \/ \E d \in SkipDrafts : TypeSkip(d)
    \/ \E p \in {DirS, DirD} : PickSource(p)

SpecSkip == InitSkip /\ [][NextSkip]_vars

-----------------------------------------------------------------------------
(* The persisted file: collections saved, and loaded by the next start *)

\* the skip labels of a job: none, two extensions and a folder, or two
\* extensions and a folder name that holds a comma
PersistLabels ==
    {<<EmptyStr, EmptyStr>>,
     <<<<"*", ".", "a", " ", "*", ".", "B">>, <<"x">>>>,
     <<<<"*", ".", "a", " ", "*", ".", "B">>, <<"x", ",", "y">>>>}

\* the jobs the form can build: from s or from the directory "c,", copied
\* every hour, or archived every 24 hours
PersistJobs ==
    {ScheduleNew(src, DirD, IF zip THEN DefaultPeriod ELSE 1, l[1], l[2], zip, 0, 0) :
        src \in {DirS, DirC}, l \in PersistLabels, zip \in BOOLEAN}

\* the collection with its jobs numbered in order
Numbered(scheds) == [k \in 1..Len(scheds) |-> [scheds[k] EXCEPT !.job = k]]

PersistCollections ==
    {Numbered(c) : c \in UNION {[1..n -> PersistJobs] : n \in 0..MaxJobs}}

\* the state after the jobs were added, and one more added and deleted again:
\* nothing selected, the inputs cleared, the file saved
InitPersist ==
    \E c \in PersistCollections :
        /\ now = 0
        /\ advances = 0
        /\ file = save_data(c)
        /\ dirs = {DirS, DirD, DirC}
        /\ tree = {}
        /\ schedules = c
        /\ selected_index = None
        /\ inputs = clear_inputs
        /\ logs = NoLines
        /\ chan = << >>
        /\ last_tick = 0
        /\ units = {}
        /\ frame = "ui"
        /\ nextJob = Len(c)
        /\ nextUnit = 0

NextPersist ==
    \/ Tick
    \/ ActionDelete
    \/ \E idx \in 0..(MaxJobs - 1) : ClickRow(idx)
    \/ Restart

SpecPersist == InitPersist /\ [][NextPersist]_vars

-----------------------------------------------------------------------------
(* The copy engine: one loaded job, run by hand into an empty destination, *)
(* edited and deleted while its thread copies                               *)

\* s/{a.x, b.L, k/{c.l, l, N/{y.x}}, n/{z}}
TreeFiltered ==
    {Entry(<<DirS, <<"a", ".", "x">>>>, "file", FALSE),
     Entry(<<DirS, <<"b", ".", "L">>>>, "file", FALSE),
     Entry(<<DirS, <<"k">>>>, "dir", FALSE),
     Entry(<<DirS, <<"k">>, <<"c", ".", "l">>>>, "file", FALSE),
     Entry(<<DirS, <<"k">>, <<"l">>>>, "file", FALSE),
     Entry(<<DirS, <<"k">>, <<"N">>>>, "dir", FALSE),
     Entry(<<DirS, <<"k">>, <<"N">>, <<"y", ".", "x">>>>, "file", FALSE),
     Entry(<<DirS, <<"n">>>>, "dir", FALSE),
     Entry(<<DirS, <<"n">>, <<"z">>>>, "file", FALSE)}

\* s/{a.x, b.x, k/{c.x}, o}: a.x and k/c.x cannot be read, o is no file
TreeUnreadable ==
    {Entry(<<DirS, <<"a", ".", "x">>>>, "file", TRUE),
     Entry(<<DirS, <<"b", ".", "x">>>>, "file", FALSE),
     Entry(<<DirS, <<"k">>>>, "dir", FALSE),
     Entry(<<DirS, <<"k">>, <<"c", ".", "x">>>>, "file", TRUE),
     Entry(<<DirS, <<"o">>>>, "other", FALSE)}

\* s/{a.x, k/{u/{c.x}}, b.x}: k/u cannot be listed
TreeUnlistable ==
    {Entry(<<DirS, <<"a", ".", "x">>>>, "file", FALSE),
     Entry(<<DirS, <<"b", ".", "x">>>>, "file", FALSE),
     Entry(<<DirS, <<"k">>>>, "dir", FALSE),
     Entry(<<DirS, <<"k">>, <<"u">>>>, "dir", TRUE),
     Entry(<<DirS, <<"k">>, <<"u">>, <<"c", ".", "x">>>>, "file", FALSE)}

Trees == {TreeFiltered, TreeUnreadable, TreeUnlistable}

\* s,d,1,*.L,N,false
RecFiltered ==
    <<"s", ",", "d", ",", "1", ",", "*", ".", "L", ",", "N", ",", "f", "a", "l", "s", "e">>

FileFiltered == FileOf(<<RecFiltered>>)

CopyFiles == {FileFiltered, FileDestMissing, FileSourceMissing}

InitCopy == \E f \in CopyFiles, tr \in Trees : InitTree(f, {DirS, DirD}, tr)

\* the steps of one backup thread, copy_recursive followed entry by entry
WalkSteps(u) ==
    \/ ExecSourceMissing(u)
    \/ ExecDestFailed(u)
    \/ ExecLogStarted(u)
    \/ CopyBegin(u)
    \/ \E created \in BOOLEAN : CopyEnter(u, created)
    \/ \E name \in Todo(u) : CopyEntry(u, name)
    \/ CopyLeave(u)
    \/ \E o \in ZipOutcomes : ExecZip(u, o)
    \/ ExecLogCompleted(u)
    \/ ExecFinish(u)

WalkNext == \E u \in units : WalkSteps(u)

NextCopy ==
    \/ Tick
    \/ ActionRunNow /\ Within(MaxJobs, MaxUnits)
    \/ ActionEdit
    \/ ActionDelete
    \/ ClickRow(0)
    \/ ClearSkipFiles
    \/ WalkNext

SpecCopy == InitCopy /\ [][NextCopy]_vars

-----------------------------------------------------------------------------
(* The extension rule: one loaded job whose source holds names with the    *)
(* dot in every place                                                      *)

\* s/{app.LOG, applog, a.log.txt, .log, a., log}
TreeNames ==
    {Entry(<<DirS, <<"a", "p", "p", ".", "L", "O", "G">>>>, "file", FALSE),
     Entry(<<DirS, <<"a", "p", "p", "l", "o", "g">>>>, "file", FALSE),
     Entry(<<DirS, <<"a", ".", "l", "o", "g", ".", "t", "x", "t">>>>, "file", FALSE),
     Entry(<<DirS, <<".", "l", "o", "g">>>>, "file", FALSE),
     Entry(<<DirS, <<"a", ".">>>>, "file", FALSE),
     Entry(<<DirS, <<"l", "o", "g">>>>, "file", FALSE)}

\* s,d,1,log
RecLog == <<"s", ",", "d", ",", "1", ",", "l", "o", "g">>

\* s,d,1,*.LOG
RecStarLog == <<"s", ",", "d", ",", "1", ",", "*", ".", "L", "O", "G">>

\* s,d,1,*. TXT: the first token is empty once "*." is taken off
RecEmptyToken == <<"s", ",", "d", ",", "1", ",", "*", ".", " ", "T", "X", "T">>

ExtFiles ==
    {FileOf(<<RecLog>>), FileOf(<<RecStarLog>>), FileOf(<<RecEmptyToken>>),
     FileDestMissing, FileSourceMissing}

InitExt == \E f \in ExtFiles : InitTree(f, {DirS, DirD}, TreeNames)

SpecExt == InitExt /\ [][NextCopy]_vars

-----------------------------------------------------------------------------
(* The job table: every handler of it, with the threads followed entry by  *)
(* entry                                                                    *)

\* s/{a.x, k/{c.x}}: a.x cannot be read
TreeSmall ==
    {Entry(<<DirS, <<"a", ".", "x">>>>, "file", TRUE),
     Entry(<<DirS, <<"k">>>>, "dir", FALSE),
     Entry(<<DirS, <<"k">>, <<"c", ".", "x">>>>, "file", FALSE)}

InitTable == \E f \in Files : InitTree(f, {DirS, DirD}, TreeSmall)

NextTable ==
    \/ Tick /\ Within(MaxJobs, MaxUnits)
    \/ ActionAdd /\ Within(MaxJobs, MaxUnits)
    \/ ActionEdit
    \/ ActionDelete
    \/ ActionRunNow /\ Within(MaxJobs, MaxUnits)
    \/ \E idx \in 0..(MaxJobs - 1) : ClickRow(idx)
    \/ \E d \in Drafts : TypeInputs(d)
    \/ WalkNext

SpecTable == InitTable /\ [][NextTable]_vars

-----------------------------------------------------------------------------
(* Loading: files whose records have from one to six fields *)

\* records: an empty line, s / s,d / s,d,1 / s,d,x / s,d, / s,d,2,*.a /
\* s,d,1,*.a,N / s,d,1,,,true
LoadRecords ==
    {EmptyStr,
     <<"s">>,
     <<"s", ",", "d">>,
     <<"s", ",", "d", ",", "1">>,
     <<"s", ",", "d", ",", "x">>,
     <<"s", ",", "d", ",">>,
     <<"s", ",", "d", ",", "2", ",", "*", ".", "a">>,
     <<"s", ",", "d", ",", "1", ",", "*", ".", "a", ",", "N">>,
     RecDestMissing}

LoadFiles ==
    {NoFile} \cup {FileOf(rs) : rs \in UNION {[1..n -> LoadRecords] : n \in 0..MaxRecords}}

InitLoad == \E f \in LoadFiles : InitWith(f, {DirS, DirD})

SpecLoad == InitLoad /\ [][NextPersist]_vars

-----------------------------------------------------------------------------
(* Properties *)

\* the threads the step has spawned
Launched == {u \in units' : u.uid > nextUnit}

\* the threads the step has spawned for the job at position k
LaunchedAt(k) == {u \in Launched : u.idx = k - 1}

\* C1: in every reachable state no job has two backup threads in flight at
\* the same time: two threads in flight were launched for different jobs.
C1_OneUnitPerJob == \A u, v \in units : u.s.job = v.s.job => u = v

\* C2: a tick of the scheduler is a call of tick() that evaluates the jobs,
\* a second or more after the last evaluation.  With each job as the tick's
\* receive loop leaves it, last_run_at = T and period_hours = P: no run of it
\* is launched at a tick where now < T + P hours; a tick launches exactly one
\* run of it when it is Idle and its whole elapsed hours (seconds divided by
\* 3600, truncated) are at least P, which is when now >= T + P hours, and
\* none when it is Running or not yet due; a call of tick() that does not
\* evaluate launches nothing.
C2_LaunchWhenDue ==
    [][Tick =>
        \A k \in 1..Len(Drained.schedules) :
            LET s     == Drained.schedules[k]
                whole == ((now - s.last_time) \div 1000) \div 3600
                due   == now >= s.last_time + s.period_hours * 3600000
                evaluates == now - last_tick >= 1000
            IN  /\ ~due => LaunchedAt(k) = {}
                /\ (whole >= s.period_hours) <=> due
                /\ (evaluates /\ ~s.is_running /\ due) => Cardinality(LaunchedAt(k)) = 1
                /\ (~evaluates \/ s.is_running) => LaunchedAt(k) = {}
                /\ \A u \in LaunchedAt(k) : u.s.job = s.job]_vars

\* C2's case: a tick, an hour or more after the start, has launched a run
C2_Witness ==
    /\ frame = "ui"
    /\ now >= SecsPerHour * MsPerSec
    /\ \E i \in 1..Len(logs) : logs[i].text = "Backup started: "

\* C3: a run_now on the selected job launches one thread for it when the job
\* is Idle, whatever the time elapsed; when the job is Running it launches
\* nothing, changes no job, no thread, no message and nothing else of the
\* state but the log, to which it appends one line, so that nothing is left
\* that could start a run later.
C3_RunNowRefusedWhenRunning ==
    [][(ActionRunNow /\ selected_index # None /\ selected_index[1] < Len(schedules)) =>
        LET idx == selected_index[1]
            s   == schedules[idx + 1]
        IN  IF s.is_running
            THEN /\ UNCHANGED <<schedules, selected_index, inputs, chan, last_tick, units,
                                now, file, dirs, tree, nextUnit>>
                 /\ logs' = <<LogLine("Backup already running", EmptyStr)>>
            ELSE /\ Cardinality(Launched) = 1
                 /\ \A u \in Launched : u.s.job = s.job /\ u.idx = idx /\ units' = units \cup {u}
                 /\ schedules' = [schedules EXCEPT ![idx + 1].is_running = TRUE]]_vars

\* C3's case: a run_now on a Running job has been refused
C3_Witness ==
    /\ frame = "tick"
    /\ logs = <<LogLine("Backup already running", EmptyStr)>>
    /\ selected_index # None
    /\ schedules[selected_index[1] + 1].is_running

\* the BackupFinished messages of the thread with the given id in the channel
FinishedOf(id) == {i \in 1..Len(chan) : chan[i].kind = "BackupFinished" /\ chan[i].unit = id}

\* C4: every launched thread sends exactly one BackupFinished(idx, ok), on
\* every path through execute_backup, and sends nothing after it.  A thread
\* ends only by sending BackupFinished with its index and outcome; a message
\* is sent only by a thread in flight, one message a step; the thread that
\* sends BackupFinished ends with it; a new thread's id was never in use; and
\* every thread in flight eventually sends its BackupFinished.
C4_OneFinalBackupFinished ==
    /\ [][/\ \A u \in units :
               (\A v \in units' : v.uid # u.uid)
               => chan' = Append(chan, MsgBackupFinished(u.idx, u.ok, u.uid, u.s.job))
          /\ Len(chan') > Len(chan) =>
               LET m == chan'[Len(chan')]
               IN  /\ chan' = Append(chan, m)
                   /\ \E u \in units : u.uid = m.unit
                   /\ m.kind = "BackupFinished" => \A v \in units' : v.uid # m.unit
          /\ \A v \in units' : (\A u \in units : u.uid # v.uid) => v.uid > nextUnit
          /\ \A u \in units : u.uid <= nextUnit]_vars
    /\ \A id \in 1..MaxRuns : (\E u \in units : u.uid = id) ~> (FinishedOf(id) # {})

\* C4's case: a thread whose archiver could not be run has sent its
\* BackupFinished, after all its Log messages
C4_Witness ==
    \E i \in 1..Len(chan) :
        /\ chan[i].kind = "BackupFinished"
        /\ chan[i].ok
        /\ \E j \in 1..(i - 1) : /\ chan[j].kind = "Log"
                                /\ chan[j].unit = chan[i].unit
                                /\ chan[j].text = "Failed to run 7z: "
        /\ \A j \in (i + 1)..Len(chan) : chan[j].unit # chan[i].unit

\* C5: when the tick receives the BackupFinished of a job's thread, that job,
\* if it is in the collection, is Idle after the receive loop and its
\* last_run_at is the time of the tick, whatever the outcome.
C5_CompletionMakesIdle ==
    [][Tick =>
        \A i \in 1..Len(chan) :
            chan[i].kind = "BackupFinished" =>
                \A k \in 1..Len(schedules) :
                    schedules[k].job = chan[i].job =>
                        /\ ~Drained.schedules[k].is_running
                        /\ Drained.schedules[k].last_time = now]_vars

\* C6: an add whose source equals its destination creates no job and logs
\* the refusal; every job of the collection has a source that differs from
\* its destination.
C6_SourceDiffersFromDest ==
    /\ [](\A k \in 1..Len(schedules) : schedules[k].source_dir # schedules[k].dest_dir)
    /\ [][(ActionAdd /\ inputs.input_source_dir = inputs.input_dest_dir)
          => (schedules' = schedules /\ logs' # NoLines)]_vars

\* the draft's source is empty or does not exist, or its destination is empty
BadPaths(inp, ds) ==
    \/ trim(inp.input_source_dir) = EmptyStr
    \/ inp.input_source_dir \notin ds
    \/ trim(inp.input_dest_dir) = EmptyStr

\* the period field is no number, or a number below 1
BadPeriod(inp) ==
    \/ parse_i32(trim(inp.input_period_hours)) = None
    \/ parse_i32(trim(inp.input_period_hours))[1] < 1

\* C7 as the spec states it: an add or edit whose draft has an empty or
\* non-existent source, an empty destination or an invalid period leaves the
\* collection as it was and logs the failure.
C7_InvalidDraftRejected ==
    [][((ActionAdd \/ ActionEdit) /\ (BadPaths(inputs, dirs) \/ BadPeriod(inputs)))
       => (schedules' = schedules /\ logs' # NoLines)]_vars

\* C7, amended: an add or edit whose draft has an empty or non-existent
\* source or an empty destination leaves the collection and the file as they
\* were and logs one line; an invalid period is not refused: the job added,
\* or the job edited, gets period_hours = 24.
C7_BadPathsRejectedBadPeriodDefaulted ==
    [][/\ ((ActionAdd \/ ActionEdit) /\ BadPaths(inputs, dirs))
          => (schedules' = schedules /\ file' = file /\ Len(logs') = 1)
       /\ (ActionAdd /\ BadPeriod(inputs) /\ Len(schedules') = Len(schedules) + 1)
          => schedules'[Len(schedules')].period_hours = 24
       /\ (ActionEdit /\ BadPeriod(inputs) /\ logs' = NoLines)
          => schedules'[selected_index[1] + 1].period_hours = 24]_vars

\* C7's case: an add with a source that does not exist has been refused, in
\* a collection that holds a job whose invalid period became 24
C7_Witness ==
    /\ frame = "tick"
    /\ logs = <<LogLine("Source folder does not exist", EmptyStr)>>
    /\ \E k \in 1..Len(schedules) : schedules[k].period_hours = DefaultPeriod

\* C8: every job of the collection has period_hours >= 1, in every reachable
\* state.
C8_PeriodAtLeastOne == \A k \in 1..Len(schedules) : schedules[k].period_hours >= 1

HasComma(s) == \E i \in 1..Len(s) : s[i] = ","

\* no stored text of the collection holds a comma
CommaFree(scheds) ==
    \A k \in 1..Len(scheds) :
        /\ ~HasComma(scheds[k].source_dir)
        /\ ~HasComma(scheds[k].dest_dir)
        /\ ~HasComma(scheds[k].skip_file_exts_label)
        /\ ~HasComma(scheds[k].skip_folders_label)

TokenSet(label) == {parse_skip_tokens(label)[i] : i \in 1..Len(parse_skip_tokens(label))}

\* the collection with the jobs at the positions in R Running, the others Idle
WithRunning(scheds, R) ==
    [k \in 1..Len(scheds) |-> [scheds[k] EXCEPT !.is_running = (k \in R)]]

\* save_data then load_data gives the same jobs in the same order, none Running
RoundTrip(scheds) ==
    LET back == load_data(save_data(scheds), now)
    IN  /\ Len(back) = Len(scheds)
        /\ \A k \in 1..Len(scheds) :
              /\ back[k].source_dir = scheds[k].source_dir
              /\ back[k].dest_dir = scheds[k].dest_dir
              /\ back[k].period_hours = scheds[k].period_hours
              /\ TokenSet(back[k].skip_file_exts_label) = TokenSet(scheds[k].skip_file_exts_label)
              /\ TokenSet(back[k].skip_folders_label) = TokenSet(scheds[k].skip_folders_label)
              /\ back[k].use_zip = scheds[k].use_zip
              /\ ~back[k].is_running

\* C9 as the spec states it: for every collection, with any of its jobs
\* Running, save_data then load_data gives the same jobs in the same order,
\* none Running.
C9_RoundTrip ==
    \A R \in SUBSET (1..Len(schedules)) : RoundTrip(WithRunning(schedules, R))

\* C9, amended: the same for every collection whose sources, destinations
\* and skip labels hold no comma.
C9_RoundTripCommaFree ==
    \A R \in SUBSET (1..Len(schedules)) :
        CommaFree(schedules) => RoundTrip(WithRunning(schedules, R))

\* C9's case: the program has started again on a saved file of two different
\* jobs without commas, one with skip lists and the archiver on
C9_Witness ==
    /\ logs = <<LogLine("Loaded  schedule(s)", <<"2">>)>>
    /\ Len(schedules) = 2
    /\ CommaFree(schedules)
    /\ file = save_data(schedules)
    /\ schedules[1].use_zip
    /\ schedules[1].skip_file_exts_label # EmptyStr
    /\ schedules[1].source_dir # schedules[2].source_dir \/ ~schedules[2].use_zip

\* no two tokens of the label are equal but for letter case, none is empty
DistinctTokens(label) ==
    LET toks == split_whitespace(label)
    IN  \A i, j \in 1..Len(toks) :
            /\ toks[i] # EmptyStr
            /\ i # j => ~eq_ignore_ascii_case(toks[i], toks[j])

\* C10: after any sequence of add-token operations neither skip list holds
\* two tokens equal but for letter case, nor an empty token.
C10_NoDuplicateTokens ==
    /\ DistinctTokens(inputs.label_skip_files)
    /\ DistinctTokens(inputs.label_skip_folders)

\* the entries below the directory root, each by its path from root and its
\* kind
Below(root, tr) ==
    {[path |-> Tail(e.path), kind |-> e.kind] :
        e \in {x \in tr : x.path[1] = root /\ x.kind \in {"file", "dir"}}}

\* the job's skip_extensions and skip_folders
ExtTokens(s) == TokenSet(s.skip_file_exts_label)
FolderTokens(s) ==
    {skip_folder_tokens(s.skip_folders_label)[i] :
        i \in 1..Len(skip_folder_tokens(s.skip_folders_label))}

MatchesToken(name, tokens) == \E t \in tokens : eq_ignore_ascii_case(name, t)

\* the entry is filtered: a file whose extension matches a skip_extensions
\* token, a directory whose name matches a skip_folders token, or anything
\* below such a directory
FilteredOut(e, s) ==
    LET name == e.path[Len(e.path)]
    IN  \/ /\ e.kind = "file"
           /\ extension(name) # None
           /\ MatchesToken(extension(name)[1], ExtTokens(s))
        \/ e.kind = "dir" /\ MatchesToken(name, FolderTokens(s))
        \/ \E i \in 1..(Len(e.path) - 1) : MatchesToken(e.path[i], FolderTokens(s))

\* the source tree of the job with the filtered entries removed
Mirror(s, tr) == {e \in Below(s.source_dir, tr) : ~FilteredOut(e, s)}

\* the files of the job's source that cannot be read
Unreadable(s, tr) ==
    {e \in Below(s.source_dir, tr) : e.kind = "file" /\ Denied(<<s.source_dir>> \o e.path, tr)}

\* the thread has made the first run since the start, into the destination
\* that was empty then, and execute_backup is returning true
Completed(u) == nextUnit = 1 /\ u.pc = "finish" /\ u.ok

SkippedAlong(path, s, tr) ==
    {i \in 2..Len(path) :
        /\ MatchesToken(path[i], FolderTokens(s))
        /\ is_dir(<<s.source_dir>> \o SubSeq(path, 2, i), {s.source_dir}, tr)}

\* C12: a directory of the source whose name equals a skip_folders token
\* case-insensitively is not descended into, at any depth: no call of
\* copy_recursive is ever made on it or below it, and neither the directory
\* nor anything of its subtree is in the destination.
C12_SkippedFolderNotDescended ==
    \A u \in units :
        /\ \A k \in 1..Len(u.stack) : SkippedAlong(u.stack[k].src, u.s, tree) = {}
        /\ \A e \in tree : e.path[1] = u.s.dest_dir => SkippedAlong(e.path, u.s, tree) = {}

\* C12's case: the run has completed; the source has a directory n below the
\* root and a directory N two levels down, with files in them, the token is
\* N, and the directory k between them was copied
C12_Witness ==
    \E u \in units :
        /\ Completed(u)
        /\ u.s.skip_folders_label = <<"N">>
        /\ \E e \in tree : e.path = <<u.s.source_dir, <<"n">>, <<"z">>>>
        /\ \E e \in tree : e.path = <<u.s.source_dir, <<"k">>, <<"N">>, <<"y", ".", "x">>>>
        /\ \E e \in tree : e.path = <<u.s.dest_dir, <<"k">>, <<"l">>>>

\* the thread u after the step, when it is still there
After(u) == {v \in units' : v.uid = u.uid}

\* the step is the turn of u's loop on the entry called name: afterwards the
\* entry is no longer ahead in that call of copy_recursive
TurnOn(u, name) ==
    /\ u \notin units'
    /\ u.pc = "walk"
    /\ Top(u).opened
    /\ name \in Top(u).todo
    /\ \A v \in After(u) :
           Len(v.stack) < Len(u.stack) \/ name \notin v.stack[Len(u.stack)].todo

\* the step is the turn of u's loop on the file called name, which is not
\* skipped and cannot be read
FileCopyFails(u, name) ==
    /\ TurnOn(u, name)
    /\ is_file(Append(Top(u).src, name), tree)
    /\ ~FilteredOut([path |-> <<name>>, kind |-> "file"], u.s)
    /\ Denied(Append(Top(u).src, name), tree)

\* C13: the failure of one file's copy is a warning and nothing more.  The
\* turn of the loop in which fs::copy fails sends one Log naming the file and
\* goes on to the next entry of the same directory; no turn of the loop ends
\* the copy with an error; once copy_recursive has returned Ok the run can
\* only end with success = true; and in the completed run every file that is
\* not skipped, except those whose copy failed, is in the destination.
C13_FileFailureIsolated ==
    /\ [][\A u \in units :
            /\ \A name \in Todo(u) :
                   FileCopyFails(u, name) =>
                       /\ chan' = Append(chan, MsgLog("Failed to copy ",
                                                      display(Append(Top(u).src, name)), u.uid))
                       /\ tree' = tree
                       /\ After(u) # {}
                       /\ \A v \in After(u) :
                              v = [WithTop(u, [Top(u) EXCEPT !.todo = @ \ {name}])
                                      EXCEPT !.warned = u.warned + 1]
            /\ (u.pc = "walk" /\ Top(u).opened) =>
                   \A v \in After(u) : v.pc \in {"walk", "copied"}
            /\ u.pc \in {"copied", "zipped"} =>
                   /\ After(u) # {}
                   /\ \A v \in After(u) : v.pc \in {"copied", "zipped"} \/ (v.pc = "finish" /\ v.ok)]_vars
    /\ [](\A u \in units :
            Completed(u) =>
                Below(u.s.dest_dir, tree) = Mirror(u.s, tree) \ Unreadable(u.s, tree))

\* C13's case: the run has completed with success = true although the copy
\* of a.x and of k/c.x failed; b.x and the directory k are in the destination
C13_Witness ==
    \E u \in units :
        /\ Completed(u)
        /\ u.warned = 2
        /\ Unreadable(u.s, tree) # {}
        /\ [path |-> <<<<"b", ".", "x">>>>, kind |-> "file"] \in Below(u.s.dest_dir, tree)
        /\ [path |-> <<<<"a", ".", "x">>>>, kind |-> "file"] \notin Below(u.s.dest_dir, tree)

\* the positions of the jobs that are Idle and due at time t
DueAt(scheds, t) ==
    {k \in 1..Len(scheds) :
        ~scheds[k].is_running /\ t >= scheds[k].last_time + scheds[k].period_hours * 3600000}

\* C14: the launch of a job depends on no other job.  A tick that evaluates
\* launches every job that is Idle and due after its receive loop, one thread
\* each, however many jobs are Running or launched by the same tick; a
\* run_now on an Idle job launches it whatever the other jobs do; and a
\* launch leaves the threads in flight as they are.
C14_JobsRunConcurrently ==
    [][/\ (Tick /\ now - last_tick >= 1000) =>
             /\ \A k \in DueAt(Drained.schedules, now) : Cardinality(LaunchedAt(k)) = 1
             /\ Cardinality(Launched) = Cardinality(DueAt(Drained.schedules, now))
       /\ (/\ ActionRunNow
           /\ selected_index # None
           /\ selected_index[1] < Len(schedules)
           /\ ~schedules[selected_index[1] + 1].is_running) =>
             Cardinality(LaunchedAt(selected_index[1] + 1)) = 1
       /\ (Tick \/ ActionRunNow) => units \subseteq units']_vars

\* C14's case: two different jobs are Running, each with one thread in flight
C14_Witness ==
    \E u, v \in units :
        /\ u.s.job # v.s.job
        /\ units = {u, v}
        /\ \A k \in 1..Len(schedules) : schedules[k].is_running
        /\ {schedules[k].job : k \in 1..Len(schedules)} = {u.s.job, v.s.job}

\* the job with the given identity is in the collection and Running
JobRunning(j) == \E k \in 1..Len(schedules) : schedules[k].job = j /\ schedules[k].is_running

\* the BackupFinished messages pending from threads launched for job j
FinishedFor(j) == {i \in 1..Len(chan) : chan[i].kind = "BackupFinished" /\ chan[i].job = j}

\* C15: a BackupFinished changes the running flag and last_time of the job
\* its thread was launched for, and of no other: a tick makes a job Idle, or
\* sets its last_time, only when it receives a BackupFinished of a thread
\* launched for that job.
C15_CompletionChangesOwnJobOnly ==
    [][Tick =>
        \A k \in 1..Len(schedules) :
            (\/ schedules[k].is_running /\ ~schedules'[k].is_running
             \/ schedules'[k].last_time # schedules[k].last_time)
            => FinishedFor(schedules[k].job) # {}]_vars

\* C16: every job that is in the collection and Running is eventually Idle
\* (or deleted), when every thread keeps running to its end and the
\* controller keeps ticking.
C16_RunningEventuallyIdle ==
    \A j \in 1..MaxJobs : JobRunning(j) ~> ~JobRunning(j)

\* the files on the filesystem
FilesOf(tr) == {e \in tr : e.kind = "file"}

\* the step ends u's run as failed: one Log of the failure, every call of
\* copy_recursive left, nothing copied, execute_backup returning false
Aborts(u) ==
    /\ After(u) = {[u EXCEPT !.pc = "finish", !.stack = << >>]}
    /\ ~u.ok
    /\ \E text \in {"Source does not exist: ", "Failed to create destination: ", "Copy failed: "} :
           \E arg \in {EmptyStr, u.s.source_dir} : chan' = Append(chan, MsgLog(text, arg, u.uid))
    /\ FilesOf(tree') = FilesOf(tree)

\* C17: a structural failure aborts the whole run.  When the source is
\* missing as execute_backup starts, or a call of copy_recursive, at any
\* depth, meets a source directory that cannot be listed or a destination
\* that cannot be a directory, the thread's step ends the run as failed; so
\* does every step that fails to create a destination directory; and a thread
\* whose run has failed does nothing but send BackupFinished(idx, false): it
\* copies nothing more and does not run the archiver.
C17_StructuralFailureAborts ==
    [][\A u \in units :
         u \notin units' =>
            /\ (\/ u.pc = "start" /\ ~path_exists(u.s.source_dir, dirs)
                \/ /\ u.pc = "walk"
                   /\ ~Top(u).opened
                   /\ \/ Denied(Top(u).src, tree)
                      \/ ~is_dir(Top(u).src, dirs, tree)
                      \/ is_file(Top(u).dst, tree))
               => Aborts(u)
            /\ (u.pc # "finish" /\ \E v \in After(u) : v.pc = "finish" /\ ~v.ok) => Aborts(u)
            /\ (u.pc = "finish" /\ ~u.ok) =>
                  /\ After(u) = {}
                  /\ chan' = Append(chan, MsgBackupFinished(u.idx, FALSE, u.uid, u.s.job))
                  /\ tree' = tree
                  /\ dirs' = dirs]_vars

\* C17's case: the run has failed two levels down, at the directory k/u that
\* cannot be listed, after a.x was copied and before b.x was reached
C17_Witness ==
    \E u \in units :
        /\ u.pc = "finish"
        /\ ~u.ok
        /\ Denied(<<u.s.source_dir, <<"k">>, <<"u">>>>, tree)
        /\ \E e \in tree : e.path = <<u.s.dest_dir, <<"a", ".", "x">>>>
        /\ \E e \in tree : e.path = <<u.s.dest_dir, <<"k">>, <<"u">>>>
        /\ \E e \in tree : e.path = <<u.s.source_dir, <<"b", ".", "x">>>>
        /\ ~\E e \in tree : e.path = <<u.s.dest_dir, <<"b", ".", "x">>>>

\* the Log lines of an archiver that failed: 7z ran and exited with a
\* non-zero status, or could not be launched
ZipFailures == {"7z exited with status ", "Failed to run 7z: "}

\* the step sends a Log of the archiver's outcome
SendsZipLog ==
    /\ Len(chan') = Len(chan) + 1
    /\ chan'[Len(chan')].kind = "Log"
    /\ chan'[Len(chan')].text \in ZipFailures \cup {"Zipped to "}

\* C18: the archiver runs only after copy_recursive returned Ok and only for
\* a job with use_zip set; whatever its outcome, failure to launch and
\* non-zero exit included, the step sends the one Log line of that outcome
\* (the two failures have lines of their own) and the run then completes:
\* "<source> backup completed", then BackupFinished(idx, true).  With use_zip
\* not set the run completes without the archiver.
C18_ArchiverFailureKeepsSuccess ==
    [][\A u \in units :
         u \notin units' =>
            /\ SendsZipLog => u.pc = "copied" /\ u.s.use_zip
            /\ (u.pc = "copied" /\ u.s.use_zip) =>
                  /\ After(u) = {[u EXCEPT !.pc = "zipped"]}
                  /\ SendsZipLog
                  /\ chan' = Append(chan, MsgLog(chan'[Len(chan')].text, u.s.dest_dir, u.uid))
            /\ (u.pc = "zipped" \/ (u.pc = "copied" /\ ~u.s.use_zip)) =>
                  /\ After(u) = {[u EXCEPT !.pc = "finish", !.ok = TRUE]}
                  /\ chan' = Append(chan, MsgLog(" backup completed", u.s.source_dir, u.uid))
            /\ (u.pc = "finish" /\ u.ok) =>
                  /\ After(u) = {}
                  /\ chan' = Append(chan, MsgBackupFinished(u.idx, TRUE, u.uid, u.s.job))]_vars

\* C18's case: after a copy that put files into the destination the archiver
\* failed, its Log is in the channel, and the thread is about to send
\* BackupFinished(idx, true)
C18_Witness ==
    \E u \in units :
        /\ u.pc = "finish"
        /\ u.ok
        /\ u.s.use_zip
        /\ FilesOf(tree) \cap {e \in tree : e.path[1] = u.s.dest_dir} # {}
        /\ \E i \in 1..Len(chan) :
               chan[i].kind = "Log" /\ chan[i].unit = u.uid /\ chan[i].text \in ZipFailures

\* the job u was launched for is no longer in the collection as it was at
\* the launch: it was deleted, or edited to other skip_extensions
ChangedSinceLaunch(u) ==
    \A k \in 1..Len(schedules) :
        schedules[k].job = u.s.job
        => schedules[k].skip_file_exts_label # u.s.skip_file_exts_label

\* C19: a thread works on the job as it was when it was launched.  The
\* schedule a new thread holds is the job at its index at that moment; no
\* step, of the controller or of a thread, changes the schedule a thread in
\* flight holds; an edit or a delete changes no thread, no message and no
\* file; and a run during which the job was edited or deleted still copies
\* and skips by the skip lists of the launch.
C19_SnapshotAtLaunch ==
    /\ [][/\ \A u \in Launched : u.idx < Len(schedules') /\ u.s = schedules'[u.idx + 1]
          /\ \A u \in units : \A v \in After(u) : v.s = u.s /\ v.idx = u.idx
          /\ (ActionEdit \/ ActionDelete) =>
                 units' = units /\ chan' = chan /\ tree' = tree]_vars
    /\ [](\A u \in units :
            (Completed(u) /\ ChangedSinceLaunch(u)) =>
                Below(u.s.dest_dir, tree) = Mirror(u.s, tree) \ Unreadable(u.s, tree))

\* C19's case: the job was launched with skip_extensions *.L and edited to
\* none while its thread was copying; the run has completed, and b.L, which
\* the edited job would copy, is not in the destination
C19_Witness ==
    \E u \in units :
        /\ Completed(u)
        /\ u.s.skip_file_exts_label = <<"*", ".", "L">>
        /\ Len(schedules) = 1
        /\ schedules[1].job = u.s.job
        /\ schedules[1].skip_file_exts_label = EmptyStr
        /\ [path |-> <<<<"b", ".", "L">>>>, kind |-> "file"] \in Below(u.s.source_dir, tree)
        /\ [path |-> <<<<"b", ".", "L">>>>, kind |-> "file"] \notin Below(u.s.dest_dir, tree)
        /\ [path |-> <<<<"a", ".", "x">>>>, kind |-> "file"] \in Below(u.s.dest_dir, tree)

\* the line the controller shows for a received message
LineOf(m) ==
    IF m.kind = "Log" THEN LogLine(m.text, m.arg)
    ELSE LogLine(IF m.ok THEN "Backup completed" ELSE "Backup failed", EmptyStr)

\* the order of emission is kept in the channel: nothing of a thread comes
\* after its BackupFinished or after its "backup completed", and a Log whose
\* thread has ended is followed by that thread's BackupFinished
InOrder(ch, us) ==
    \A i \in 1..Len(ch) :
        /\ (ch[i].kind = "BackupFinished" \/ ch[i].text = " backup completed")
           => \A j \in (i + 1)..Len(ch) : ch[j].unit = ch[i].unit => ch[j].kind = "BackupFinished"
        /\ (ch[i].kind = "Log" /\ \A u \in us : u.uid # ch[i].unit)
           => \E j \in (i + 1)..Len(ch) : ch[j].unit = ch[i].unit /\ ch[j].kind = "BackupFinished"

\* C20: the channel keeps the order of emission and the tick keeps the order
\* of arrival.  A thread's step sends at most one message, behind all the
\* pending ones, and no other step sends; before and after every step the
\* messages of each thread are in the channel in the order it sent them, its
\* BackupFinished last.  A tick, whatever threads are in flight, leaves the
\* channel empty, and the lines it appends to the log begin with one line for
\* each pending message, in the order of the channel.
C20_OrderKept ==
    [][/\ \A u \in units :
            u \notin units' =>
               \/ chan' = chan
               \/ /\ Len(chan') = Len(chan) + 1
                  /\ chan' = Append(chan, chan'[Len(chan')])
                  /\ chan'[Len(chan')].unit = u.uid
       /\ units \subseteq units' => (chan' = chan \/ Tick)
       /\ Tick =>
            /\ chan' = << >>
            /\ Len(logs') >= Len(chan)
            /\ \A i \in 1..Len(chan) : logs'[i] = LineOf(chan[i])
       /\ InOrder(chan, units) /\ InOrder(chan', units')]_vars

\* C20's case: with a thread still in flight, a tick has received the Log
\* messages of two threads and the BackupFinished of one, and the log shows
\* them in the order they were sent
C20_Witness ==
    /\ frame = "ui"
    /\ chan = << >>
    /\ units # {}
    /\ Len(logs) >= 3
    /\ logs[1].text = " backup started"
    /\ logs[2].text = "Source does not exist: "
    /\ logs[3].text = "Backup failed"

\* the text after the last dot of the name, None when the name has no dot
AfterLastDot(name) ==
    LET dots == {i \in 1..Len(name) : name[i] = "."}
        last == CHOOSE i \in dots : \A j \in dots : j <= i
    IN  IF dots = {} THEN None ELSE Some(SubSeq(name, last + 1, Len(name)))

\* the text after the last dot of the name equals a skip_extensions token of
\* the job, case-insensitively
LastDotMatches(name, s) ==
    /\ AfterLastDot(name) # None
    /\ MatchesToken(AfterLastDot(name)[1], ExtTokens(s))

\* the last dot of the name is not its first character and is followed by
\* some text
HasExtension(name) ==
    /\ AfterLastDot(name) # None
    /\ AfterLastDot(name) # Some(EmptyStr)
    /\ Len(AfterLastDot(name)[1]) < Len(name) - 1

\* the files right below the job's source, by name
SourceFiles(s, tr) == {e.path[1] : e \in {x \in Below(s.source_dir, tr) : x.kind = "file" /\ Len(x.path) = 1}}

\* the files right below the job's destination, by name
DestFiles(s, tr) == {e.path[1] : e \in {x \in Below(s.dest_dir, tr) : x.kind = "file" /\ Len(x.path) = 1}}

\* the step is the turn of u's loop on the file called name
TurnOnFile(u, name) == TurnOn(u, name) /\ is_file(Append(Top(u).src, name), tree)

\* the turn of u's loop on the file called name skips it when skipped holds:
\* nothing is copied and nothing is sent; and copies it otherwise
SkippedWhen(u, name, skipped) ==
    IF skipped THEN tree' = tree /\ chan' = chan
    ELSE is_file(Append(Top(u).dst, name), tree')

\* C21 as stated: a file is skipped by extension iff the text after the last
\* dot of its name equals a skip_extensions token case-insensitively,
\* wherever that dot is and whatever follows it.  Checked on every turn of
\* the copy loop on a file, and on the destination of a completed first run.
C21_SkippedIffAfterLastDotMatches ==
    /\ [][\A u \in units : \A name \in Todo(u) :
            TurnOnFile(u, name) => SkippedWhen(u, name, LastDotMatches(name, u.s))]_vars
    /\ [](\A u \in units :
            Completed(u) =>
                DestFiles(u.s, tree) =
                    {n \in SourceFiles(u.s, tree) : ~LastDotMatches(n, u.s)})

\* C21, amended: a file is skipped by extension iff the last dot of its name
\* is not its first character, the text after that dot is not empty and it
\* equals a skip_extensions token case-insensitively; a file with no
\* extension is never skipped; the token log skips app.LOG but neither applog
\* nor a.log.txt.
C21_SkippedIffExtensionMatches ==
    /\ [][\A u \in units : \A name \in Todo(u) :
            TurnOnFile(u, name) =>
                SkippedWhen(u, name, HasExtension(name) /\ LastDotMatches(name, u.s))]_vars
    /\ [](\A u \in units :
            Completed(u) =>
                /\ DestFiles(u.s, tree) =
                       {n \in SourceFiles(u.s, tree) :
                           ~(HasExtension(n) /\ LastDotMatches(n, u.s))}
                /\ \A n \in SourceFiles(u.s, tree) : ~HasExtension(n) => n \in DestFiles(u.s, tree)
                /\ ExtTokens(u.s) = {<<"l", "o", "g">>} =>
                       /\ <<"a", "p", "p", ".", "L", "O", "G">> \notin DestFiles(u.s, tree)
                       /\ <<"a", "p", "p", "l", "o", "g">> \in DestFiles(u.s, tree)
                       /\ <<"a", ".", "l", "o", "g", ".", "t", "x", "t">> \in DestFiles(u.s, tree))

\* C21's case: the first run of the job whose only token is log, written
\* *.LOG, has completed on a source that holds app.LOG, applog, a.log.txt,
\* .log, a. and log; app.LOG alone is missing from the destination
C21_Witness ==
    \E u \in units :
        /\ Completed(u)
        /\ u.s.skip_file_exts_label = <<"*", ".", "L", "O", "G">>
        /\ {<<"a", "p", "p", ".", "L", "O", "G">>, <<".", "l", "o", "g">>, <<"a", ".">>}
               \subseteq SourceFiles(u.s, tree)
        /\ DestFiles(u.s, tree) = SourceFiles(u.s, tree) \ {<<"a", "p", "p", ".", "L", "O", "G">>}

\* the step appends at most one message to the channel, a Log or a
\* BackupFinished that the thread u sent
SendsOnly(u) ==
    \/ chan' = chan
    \/ /\ Len(chan') = Len(chan) + 1
       /\ chan' = Append(chan, chan'[Len(chan')])
       /\ chan'[Len(chan')].kind \in {"Log", "BackupFinished"}
       /\ chan'[Len(chan')].unit = u.uid

\* the step is one of the controller's handlers that change the collection
ControllerAction == ActionAdd \/ ActionEdit \/ ActionDelete \/ ActionRunNow \/ Tick

\* C22: every step of a backup thread leaves the controller's schedules,
\* selection, input fields, persisted file and log unchanged and does nothing
\* to the channel but append one Log or BackupFinished of its own; the thread
\* keeps the clone and the index it was launched with; and the collection
\* changes only in add, edit, delete, run_now and tick.
C22_UnitsLeaveCollectionAlone ==
    [][/\ \A u \in units :
            u \notin units' =>
                /\ schedules' = schedules
                /\ selected_index' = selected_index
                /\ logs' = logs
                /\ inputs' = inputs
                /\ file' = file
                /\ SendsOnly(u)
                /\ \A v \in After(u) : v.s = u.s /\ v.idx = u.idx
       /\ schedules' # schedules => ControllerAction]_vars

\* C22's case: a thread launched by hand has sent its messages and is about
\* to report, while the job it runs is still shown Running, a row is selected
\* and the log still shows the line of the launch
C22_Witness ==
    \E u \in units :
        /\ u.pc = "finish"
        /\ Len(chan) >= 2
        /\ \A i \in 1..Len(chan) : chan[i].unit = u.uid
        /\ selected_index # None
        /\ u.idx < Len(schedules)
        /\ schedules[u.idx + 1].is_running
        /\ logs = <<LogLine("Backup started: ", u.s.source_dir)>>

\* the positions of the commas of a line
Commas(line) == {i \in 1..Len(line) : line[i] = ","}

\* the number of comma-separated fields of a line
FieldCount(line) == Cardinality(Commas(line)) + 1

\* the position of the n-th comma of a line; 0 for n = 0, past the end of the
\* line when it has fewer commas
CommaAt(line, n) ==
    IF n = 0 THEN 0
    ELSE IF n > Cardinality(Commas(line)) THEN Len(line) + 1
    ELSE CHOOSE i \in Commas(line) : Cardinality({j \in Commas(line) : j < i}) = n - 1

\* the k-th comma-separated field of a line, k from 1
FieldAt(line, k) == SubSeq(line, CommaAt(line, k - 1) + 1, CommaAt(line, k) - 1)

\* the text is no decimal number, with or without a sign
Unparsable(text) ==
    LET digits == IF text # EmptyStr /\ Head(text) \in {"+", "-"} THEN Tail(text) ELSE text
    IN  digits = EmptyStr \/ \E i \in 1..Len(digits) : ~IsDigit(digits[i])

HasMinFields(line) == FieldCount(trim_end(line)) >= 3

\* the records of the file that have at least 3 fields, in the file's order
RecordsWithMinFields(f) ==
    IF f.exists THEN SelectSeq(SubSeq(f.lines, 3, Len(f.lines)), HasMinFields) ELSE << >>

\* the job is what the claim says the record creates
JobOfRecord(job, line) ==
    LET n == FieldCount(line)
    IN  /\ job.source_dir = FieldAt(line, 1)
        /\ job.dest_dir = FieldAt(line, 2)
        /\ Unparsable(FieldAt(line, 3)) => job.period_hours = DefaultPeriod
        /\ job.skip_file_exts_label = (IF n >= 4 THEN FieldAt(line, 4) ELSE EmptyStr)
        /\ job.skip_folders_label = (IF n >= 5 THEN FieldAt(line, 5) ELSE EmptyStr)
        /\ n <= 5 => ~job.use_zip
        /\ ~job.is_running

\* the collection and the log are what the claim says loading the file gives:
\* one job for each record of at least 3 fields, in order, and no line in the
\* log but the count of the jobs loaded
LoadedAsClaimed(scheds, lg, f) ==
    /\ Len(scheds) = Len(RecordsWithMinFields(f))
    /\ \A k \in 1..Len(scheds) : JobOfRecord(scheds[k], trim_end(RecordsWithMinFields(f)[k]))
    /\ lg = IF f.exists
            THEN <<LogLine("Loaded  schedule(s)", int_to_string(Len(RecordsWithMinFields(f))))>>
            ELSE NoLines

\* C23: on load, a record with fewer than 3 comma-separated fields creates no
\* job and no error line, and the records around it are loaded all the same;
\* a record with 3 to 5 fields creates a job whose missing trailing fields
\* are the empty skip lists and use_zip = false; an unparsable period is 24.
\* Stated of the start of the program and of every later start.
C23_LoadSkipsShortRecordsAndDefaults ==
    /\ LoadedAsClaimed(schedules, logs, file)
    /\ [][Restart => LoadedAsClaimed(schedules', logs', file')]_vars

\* C23's case: the file held a record of 2 fields and then the record s,d,x;
\* the program has started with one job, s to d every 24 hours, with empty
\* skip lists and no archive, and the log shows one job loaded
C23_Witness ==
    /\ file.exists
    /\ Len(file.lines) = 4
    /\ file.lines[3] = <<"s", ",", "d">>
    /\ file.lines[4] = <<"s", ",", "d", ",", "x">>
    /\ schedules = <<ScheduleNew(DirS, DirD, DefaultPeriod, EmptyStr, EmptyStr, FALSE, 0, 1)>>
    /\ logs = <<LogLine("Loaded  schedule(s)", <<"1">>)>>

\* C24: in every reachable state selected_index is None or the index of a
\* job of the collection, whatever was added, selected, edited, deleted, run
\* or received before; so edit, delete and run_now, which address the job at
\* selected_index, never address a job outside the collection.
C24_SelectionValid ==
    selected_index # None => selected_index[1] \in 0..(Len(schedules) - 1)

\* C24's case: two jobs were created, one of them was deleted, which cleared
\* the selection, and the row of the job that is left was selected again
C24_Witness ==
    /\ nextJob = 2
    /\ Len(schedules) = 1
    /\ selected_index = Some(0)
    /\ schedules[1].job = 2

\* the step is an edit that was not refused: every refusal logs one line
EditSucceeds == ActionEdit /\ logs' = NoLines

\* the configuration fields of the job are those of the input fields
ConfiguredFrom(job, inp) ==
    /\ job.source_dir = inp.input_source_dir
    /\ job.dest_dir = inp.input_dest_dir
    /\ job.period_hours >= 1
    /\ Unparsable(trim(inp.input_period_hours)) => job.period_hours = DefaultPeriod
    /\ job.skip_file_exts_label = inp.label_skip_files
    /\ job.skip_folders_label = inp.label_skip_folders
    /\ job.use_zip = inp.input_use_zip

\* C25: a successful edit replaces the configuration fields (source, dest,
\* period, skip lists, archive flag) of the selected job by the input fields
\* and nothing else: that job's running flag, last_time and identity, every
\* other job, and the length and order of the collection are as before, no
\* thread is launched, none is changed and nothing is sent, whether or not
\* the edited job is Running.
C25_EditReplacesConfigOnly ==
    [][EditSucceeds =>
        /\ selected_index # None
        /\ Len(schedules') = Len(schedules)
        /\ \A k \in 1..Len(schedules) :
              IF k = selected_index[1] + 1
              THEN /\ ConfiguredFrom(schedules'[k], inputs)
                   /\ schedules'[k].is_running = schedules[k].is_running
                   /\ schedules'[k].last_time = schedules[k].last_time
                   /\ schedules'[k].job = schedules[k].job
              ELSE schedules'[k] = schedules[k]
        /\ selected_index' = selected_index
        /\ units' = units
        /\ nextUnit' = nextUnit
        /\ chan' = chan]_vars

\* C25's case: in a collection of two jobs, the job whose thread is in flight
\* has just been edited: it is still Running, its destination is no longer
\* the one its thread copies to, and the input fields were cleared
C25_Witness ==
    /\ Len(schedules) = 2
    /\ frame = "tick"
    /\ inputs = clear_inputs
    /\ logs = NoLines
    /\ \E u \in units : \E k \in 1..Len(schedules) :
           /\ schedules[k].job = u.s.job
           /\ schedules[k].is_running
           /\ schedules[k].dest_dir # u.s.dest_dir
           /\ schedules[k].last_time = u.s.last_time

====
